---- MODULE Spec2Model ----
(***************************************************************************)
(* A model of the rustbac BACnet client request/response engine            *)
(* (crates/rustbac-client/src/client.rs, listener.rs): invoke-id           *)
(* allocation, the request I/O lock, confirmed-request segmentation,       *)
(* response waiting, complex-ack reassembly and notification reception.    *)
(*                                                                         *)
(* Time is a discrete clock `now`.  It advances only while some task is    *)
(* suspended in a timed receive; decoding, dispatching and the sends are   *)
(* steps that take no time.                                                *)
(***************************************************************************)
EXTENDS Integers, Sequences, FiniteSets, TLC

\* ------------------------------------------------------------------ bounds

\* Confirmed calls started per behaviour of the engine specifications.
MaxCalls == 1
\* Invoke-id allocations per behaviour of SpecInvoke (more than 255: the wrap).
MaxAllocs == 258
\* Frames a call has transmitted beyond which reassembly reads no further frame.
MaxSent == 4
\* Frames the dedicated listener loop reads per behaviour.
MaxListenerReads == 1
\* Calls of any kind started per behaviour of SpecConc and of SpecLink.
MaxOps == 2
\* Frames a call of SpecBulk has transmitted beyond which it reads no further
\* segment (one request and an ack per segment: enough to pass 1 MiB).
MaxBulkSent == 704
\* Datagrams that reach the transport's socket unasked per behaviour of SpecBip.
MaxInbound == 1
\* Largest buffer a Writer is given.
MaxWriter == 6
\* Calls of acquire and set_device_limit started per behaviour of SpecThrottle.
MaxThrottleCalls == 3
\* Largest max_concurrent passed to set_device_limit.
MaxLimit == 2
\* The arguments of DeviceThrottle::new.
NewMaxConcurrent == 1
NewMinInterval == 1
\* The wait budgets passed to recv_*_notification and to who_is / who_has.
NotifyWait == 1
DiscoveryWait == 1

\* Client configuration (with_response_timeout, with_segment_ack_timeout,
\* with_segmented_request_window_size), in clock ticks / segments.
response_timeout == 3
segment_ack_timeout == 2
segmented_request_window_size == 2

\* ------------------------------------------------------- program constants

segmented_request_retries == 2
MIN_SEGMENT_DATA_LEN == 32
MAX_COMPLEX_ACK_REASSEMBLY_BYTES == 1048576
MAX_ENCODE_BUFFER == 65536
NPDU_LEN == 2
CONFIRMED_HEADER_LEN == 4
SEGMENT_HEADER_LEN == 6
SEGMENT_TX_HEADROOM == 16
U8_MAX == 255
RX_BUFFER_LEN == 1500
COMPLEX_ACK_SEGMENT_HEADER_LEN == 5
U16_MAX == 65535
BVLC_TYPE_BIP == 129
BVLC_HEADER_LEN == 4
MAX_BIP_FRAME_LEN == 1600
\* The reply wait of an administrative command, in clock ticks of one second.
BBMD_REPLY_TIMEOUT == 2

\* BvlcFunction::to_u8.
Result == 0
WriteBroadcastDistributionTable == 1
ReadBroadcastDistributionTable == 2
ReadBroadcastDistributionTableAck == 3
ForwardedNpdu == 4
RegisterForeignDevice == 5
ReadForeignDeviceTable == 6
ReadForeignDeviceTableAck == 7
DeleteForeignDeviceTableEntry == 8
DistributeBroadcastToNetwork == 9
OriginalUnicastNpdu == 10
OriginalBroadcastNpdu == 11

SERVICE_READ_PROPERTY == 12
SERVICE_WRITE_PROPERTY == 15
SERVICE_CONFIRMED_COV_NOTIFICATION == 1
SERVICE_CONFIRMED_EVENT_NOTIFICATION == 2
SERVICE_UNCONFIRMED_COV_NOTIFICATION == 2
SERVICE_UNCONFIRMED_EVENT_NOTIFICATION == 3
SERVICE_I_AM == 0
SERVICE_I_HAVE == 1

\* ------------------------------------------------------------------- state

Tasks == {"t1", "t2"}
MainTask == "t1"
NoTask == "none"
Addrs == {"A", "B"}

VARIABLES
    invoke_id,        \* BacnetClient.invoke_id: the Mutex<u8> counter
    invoke_lock,      \* holder of the invoke_id mutex, or NoTask
    request_io_lock,  \* holder of BacnetClient.request_io_lock, or NoTask
    now,              \* tokio::time::Instant::now()
    pc,               \* per task: position in the call it is running
    call,             \* per task: arguments of the call
    id,               \* per task: the invoke-id next_invoke_id returned
    deadline,         \* per task: overall deadline of the call
    rx,               \* per task: what the last datalink.recv returned
    seg,              \* per task: locals of send_confirmed_request
    rea,              \* per task: locals of collect_complex_ack_payload
    result,           \* per task: what the call returned
    sent,             \* per task: frames the call has passed to datalink.send
    accepted,         \* per task: the complex-ack segments taken into the payload
    seen,             \* per task: kinds of input the call's receives have met
    found,            \* per task: who_is / who_has: the answers collected
    ncalls,           \* calls started
    allocCount,       \* invoke-ids issued so far
    issued,           \* the invoke-id issued last (0: none yet)
    listener,         \* the notification listener's driver loop
    bbmd_command_lock, \* BacnetIpTransport: holder of bbmd_command_lock, or NoTask
    socket,           \* BacnetIpTransport: datagrams the UDP socket has queued
    wire,             \* BacnetIpTransport: the frames passed to socket.send_to
    injected,         \* datagrams that have reached the socket unasked
    codec,            \* rustbac-core: the value, Writer and Reader of one encode/decode
    throttle,         \* DeviceThrottle: overrides, semaphores, last_request
    arcs,             \* the Arc<Semaphore> objects DeviceThrottle has created
    acq               \* per task: locals of DeviceThrottle::acquire

bipVars == <<bbmd_command_lock, socket, wire, injected>>
libVars == <<codec, throttle, arcs, acq>>

\* The client and its transport: what the library's pure parts leave alone.
oldVars == <<invoke_id, invoke_lock, request_io_lock, now, pc, call, id, deadline,
             rx, seg, rea, result, sent, accepted, seen, found, ncalls,
             allocCount, issued, listener, bipVars>>
vars == <<oldVars, libVars>>

idVars == <<invoke_id, invoke_lock, allocCount, issued>>
xchgVars == <<request_io_lock, deadline, rx, seg, rea, sent, accepted, seen, found>>
\* What the calls of the BACnet/IP transport leave alone.
clientVars == <<idVars, request_io_lock, seg, rea, sent, accepted, seen, found, id,
                listener, libVars>>

\* ------------------------------------------------------------------ values

Min(a, b) == IF a < b THEN a ELSE b
Max(a, b) == IF a > b THEN a ELSE b

\* u8::wrapping_add(1)
WrapAdd1(v) == (v + 1) % (U8_MAX + 1)

\* A received byte string is a sequence of chunks; a chunk stands for a run of
\* bytes of the given length.
\* "full" is the longest payload a segment read into the 1500-byte receive
\* buffer can carry after the NPDU and the segmented Complex-Ack header.
Chunks == {"a", "b", "full"}
ChunkLen(c) ==
    IF c = "a" THEN 1
    ELSE IF c = "b" THEN 2
    ELSE RX_BUFFER_LEN - NPDU_LEN - COMPLEX_ACK_SEGMENT_HEADER_LEN

\* payload.len(): the chunks' lengths added up, chunk kind by chunk kind.
PayloadLen(p) ==
    LET count(c) == Cardinality({i \in 1..Len(p) : p[i] = c})
    IN count("a") * ChunkLen("a") + count("b") * ChunkLen("b")
          + count("full") * ChunkLen("full")

NoCall == [kind |-> "none", address |-> "A", service_choice |-> 0, len |-> 0, max_apdu |-> 0]
NoSeg == [segment_count |-> 0, batch_start |-> 0, batch_end |-> 0, next |-> 0,
          window_size |-> 0, frame_window |-> 0, peer_window_ceiling |-> 0,
          retries_remaining |-> 0, ack_deadline |-> 0]
NoRea == [payload |-> <<>>, last_seq |-> 0, window_size |-> 0, more_follows |-> FALSE]
NoResult == [kind |-> "none", payload |-> <<>>, num |-> 0, dl |-> ""]

Res(kind) == [kind |-> kind, payload |-> <<>>, num |-> 0, dl |-> ""]
ResOk(payload) == [kind |-> "Ok", payload |-> payload, num |-> 0, dl |-> ""]
ResNum(kind, n) == [kind |-> kind, payload |-> <<>>, num |-> n, dl |-> ""]
ResDataLink(e) == [kind |-> "DataLink", payload |-> <<>>, num |-> 0, dl |-> e]

\* What datalink.recv hands back: a frame from `src`, or an error.
Frame(src, wf, pdu, inv, svc, sg, mf, sq, win, neg, srv, pl) ==
    [err |-> "", src |-> src, wf |-> wf, pdu |-> pdu, invoke_id |-> inv,
     service_choice |-> svc, segmented |-> sg, more_follows |-> mf,
     sequence_number |-> sq, window |-> win, negative_ack |-> neg,
     sent_by_server |-> srv, payload |-> pl]
RecvErr(e) ==
    [err |-> e, src |-> "A", wf |-> "ok", pdu |-> "none", invoke_id |-> 0,
     service_choice |-> 0, segmented |-> FALSE, more_follows |-> FALSE,
     sequence_number |-> 0, window |-> 0, negative_ack |-> FALSE,
     sent_by_server |-> FALSE, payload |-> <<>>]
NoRx == RecvErr("none")

\* ------------------------------------------------- invoke-id allocation

\* next_invoke_id: the value stored back into the counter.
BumpNoZeroFix(v) == WrapAdd1(v)
Bump(v) == IF WrapAdd1(v) = 0 THEN 1 ELSE WrapAdd1(v)

\* The MutexGuard of next_invoke_id goes out of scope when the function
\* returns: the counter lock has no holder afterwards.
KeepGuard(holder) == holder
DropGuard(holder) == NoTask

\* self.invoke_id.lock().await
IdLock(t) ==
    /\ pc[t] = "id_lock"
    /\ invoke_lock = NoTask
    /\ invoke_lock' = t
    /\ pc' = [pc EXCEPT ![t] = "id_take"]
    /\ UNCHANGED <<invoke_id, allocCount, issued, xchgVars, now, call, id, result,
                   ncalls, listener, bipVars, libVars>>

\* let id = *lock;
IdTake(t) ==
    /\ pc[t] = "id_take"
    /\ id' = [id EXCEPT ![t] = invoke_id]
    /\ issued' = invoke_id
    /\ allocCount' = allocCount + 1
    /\ pc' = [pc EXCEPT ![t] = "id_store"]
    /\ UNCHANGED <<invoke_id, invoke_lock, xchgVars, now, call, result, ncalls, listener, bipVars, libVars>>

\* *lock = lock.wrapping_add(1); if *lock == 0 { *lock = 1 }; the guard drops.
IdStore(t) ==
    /\ pc[t] = "id_store"
    /\ invoke_id' = Bump(invoke_id)
    /\ invoke_lock' = DropGuard(invoke_lock)
    /\ pc' = [pc EXCEPT ![t] = "have_id"]
    /\ UNCHANGED <<allocCount, issued, xchgVars, now, call, id, result, ncalls, listener, bipVars, libVars>>

\* A confirmed call whose request does not fit the largest encode buffer:
\* encode_with_growth gives up and the call returns before any exchange.
OversizedCall == [kind |-> "simple", address |-> "A",
                  service_choice |-> SERVICE_WRITE_PROPERTY,
                  len |-> MAX_ENCODE_BUFFER + 1, max_apdu |-> 5]

Fits(c) == NPDU_LEN + CONFIRMED_HEADER_LEN + c.len <= MAX_ENCODE_BUFFER

\* A caller starts a confirmed call: next_invoke_id() comes first.
Start(t, c) ==
    /\ pc[t] = "idle"
    /\ call' = [call EXCEPT ![t] = c]
    /\ pc' = [pc EXCEPT ![t] = "id_lock"]
    /\ ncalls' = ncalls + 1
    /\ UNCHANGED <<idVars, xchgVars, now, id, result, listener, bipVars, libVars>>

CallOversized(t) ==
    /\ ncalls < MaxAllocs
    /\ Start(t, OversizedCall)

\* encode_with_growth: every buffer size is too small.
EncodeFail(t) ==
    /\ pc[t] = "have_id"
    /\ ~Fits(call[t])
    /\ pc' = [pc EXCEPT ![t] = "done"]
    /\ result' = [result EXCEPT ![t] = Res("SegmentedRequestTooLarge")]
    /\ UNCHANGED <<idVars, xchgVars, now, call, id, ncalls, listener, bipVars, libVars>>

\* The caller takes the result; the task is free for its next call.
Finish(t) ==
    /\ pc[t] = "done"
    /\ pc' = [pc EXCEPT ![t] = "idle"]
    /\ call' = [call EXCEPT ![t] = NoCall]
    /\ id' = [id EXCEPT ![t] = 0]
    /\ result' = [result EXCEPT ![t] = NoResult]
    /\ sent' = [sent EXCEPT ![t] = <<>>]
    /\ accepted' = [accepted EXCEPT ![t] = <<>>]
    /\ seen' = [seen EXCEPT ![t] = {}]
    /\ found' = [found EXCEPT ![t] = <<>>]
    /\ UNCHANGED <<idVars, request_io_lock, deadline, rx, seg, rea, now, ncalls, listener, bipVars, libVars>>

\* ------------------------------------------------------ frames on the wire

OtherAddr(a) == CHOOSE x \in Addrs : x # a
OtherService(s) == IF s = SERVICE_READ_PROPERTY THEN SERVICE_WRITE_PROPERTY
                   ELSE SERVICE_READ_PROPERTY

FSimpleAck(src, inv, svc) ==
    Frame(src, "ok", "SimpleAck", inv, svc, FALSE, FALSE, 0, 0, FALSE, FALSE, <<>>)
FComplexAck(src, inv, svc, sg, mf, sq, win, pl) ==
    Frame(src, "ok", "ComplexAck", inv, svc, sg, mf, sq, win, FALSE, FALSE, pl)
FSegmentAck(src, inv, neg, srv, sq, win) ==
    Frame(src, "ok", "SegmentAck", inv, 0, FALSE, FALSE, sq, win, neg, srv, <<>>)
FError(src, inv, svc) ==
    Frame(src, "ok", "Error", inv, svc, FALSE, FALSE, 0, 0, FALSE, FALSE, <<>>)
FReject(src, inv) ==
    Frame(src, "ok", "Reject", inv, 0, FALSE, FALSE, 0, 0, FALSE, FALSE, <<>>)
FAbort(src, inv) ==
    Frame(src, "ok", "Abort", inv, 0, FALSE, FALSE, 0, 0, FALSE, FALSE, <<>>)
FConfirmedRequest(src, inv, svc, sg) ==
    Frame(src, "ok", "ConfirmedRequest", inv, svc, sg, FALSE, 0, 1, FALSE, FALSE, <<"a">>)
FUnconfirmedRequest(src, svc) ==
    Frame(src, "ok", "UnconfirmedRequest", 0, svc, FALSE, FALSE, 0, 0, FALSE, FALSE, <<"a">>)
\* A frame that does not decode: wf is "bad_npdu" (Npdu::decode fails), "empty"
\* (no APDU byte after the NPDU) or "truncated" (the PDU header is cut short).
FBad(src, wf, pdu) ==
    Frame(src, wf, pdu, 0, 0, FALSE, FALSE, 0, 0, FALSE, FALSE, <<>>)

\* (source, invoke-id, service-choice) of the frames delivered to an exchange
\* with target a, invoke-id i and service s: all matching, or one differing.
Keys(a, i, s) ==
    {<<a, i, s>>, <<OtherAddr(a), i, s>>, <<a, Bump(i), s>>, <<a, i, OtherService(s)>>}
KeysNoService(a, i) == {<<a, i>>, <<OtherAddr(a), i>>, <<a, Bump(i)>>}

SegPayloads == {<<"a">>, <<"b">>}
AckSeqs == {0, 1, U8_MAX}
\* The window a peer's segment announces: 1 with payload "a", 2 with "b".
WindowOf(pl) == IF pl = <<"a">> THEN 1 ELSE 2

ComplexAckFrames(a, i, s) ==
    {FComplexAck(a, i, s, FALSE, FALSE, 0, 0, pl) : pl \in SegPayloads}
    \cup {FComplexAck(a, i, s, TRUE, mf, sq, WindowOf(pl), pl) :
            mf \in BOOLEAN, sq \in AckSeqs, pl \in SegPayloads}
    \cup {FComplexAck(k[1], k[2], k[3], FALSE, FALSE, 0, 0, <<"a">>) :
            k \in Keys(a, i, s) \ {<<a, i, s>>}}
    \cup {FComplexAck(k[1], k[2], k[3], TRUE, TRUE, sq, 1, <<"a">>) :
            k \in Keys(a, i, s) \ {<<a, i, s>>}, sq \in AckSeqs}

SegmentAckFrames(a, i) ==
    {FSegmentAck(a, i, neg, TRUE, sq, win) :
            neg \in BOOLEAN, sq \in {0, 1, 2}, win \in {0, 1, 3}}
    \cup {FSegmentAck(a, i, FALSE, FALSE, sq, 1) : sq \in {0, 1, 2}}
    \cup {FSegmentAck(k[1], k[2], neg, TRUE, sq, 1) :
            k \in KeysNoService(a, i) \ {<<a, i>>}, neg \in BOOLEAN, sq \in {0, 1, 2}}

RemoteErrorFrames(a, i, s) ==
    {FError(k[1], k[2], k[3]) : k \in Keys(a, i, s)}
    \cup {FReject(k[1], k[2]) : k \in KeysNoService(a, i)}
    \cup {FAbort(k[1], k[2]) : k \in KeysNoService(a, i)}

BadFrames(a) ==
    {FBad(src, "bad_npdu", "none") : src \in Addrs}
    \cup {FBad(src, "empty", "none") : src \in Addrs}
    \cup {FBad(a, "truncated", p) :
            p \in {"SimpleAck", "ComplexAck", "SegmentAck", "Error", "Reject", "Abort"}}

RecvErrors == {RecvErr("InvalidFrame"), RecvErr("Io")}

\* Everything datalink.recv may hand to an exchange.
ExchangeRx(a, i, s) ==
    {FSimpleAck(k[1], k[2], k[3]) : k \in Keys(a, i, s)}
    \cup ComplexAckFrames(a, i, s)
    \cup SegmentAckFrames(a, i)
    \cup RemoteErrorFrames(a, i, s)
    \cup {FConfirmedRequest(a, i, SERVICE_CONFIRMED_COV_NOTIFICATION, FALSE),
          FUnconfirmedRequest(a, SERVICE_I_AM)}
    \cup BadFrames(a)
    \cup RecvErrors

\* A frame handed to datalink.send.
Tx(dst, pdu, inv, svc, sg, mf, sq, win, len) ==
    [dst |-> dst, pdu |-> pdu, invoke_id |-> inv, service_choice |-> svc,
     segmented |-> sg, more_follows |-> mf, sequence_number |-> sq, window |-> win,
     negative_ack |-> FALSE, sent_by_server |-> FALSE, len |-> len]

\* What a received input adds to the history `seen`.
Met(f, address) ==
    IF f.err = "InvalidFrame" THEN {"invalid_frame"}
    ELSE IF f.err = "" /\ f.src # address THEN {"other_peer"}
    ELSE {}

\* datalink.send returns Ok or an error.
SendResults == {"ok", "Io"}

\* ------------------------------------------------- send_confirmed_request

max_apdu_octets(code) ==
    CASE code % 16 = 0 -> 50
      [] code % 16 = 1 -> 128
      [] code % 16 = 2 -> 206
      [] code % 16 = 3 -> 480
      [] code % 16 = 4 -> 1024
      [] code % 16 = 5 -> 1476
      [] OTHER -> 480

segment_data_len(c) == Max(Max(max_apdu_octets(c.max_apdu) - 5, 0), MIN_SEGMENT_DATA_LEN)

\* usize::div_ceil
DivCeil(n, d) == (n + d - 1) \div d

segment_count(c) == DivCeil(c.len, segment_data_len(c))

\* `&service_payload[start..end]`: where segment k starts, and its length.
segment_start(c, k) == k * segment_data_len(c)
SegmentLenFull(c, k) == segment_data_len(c)
segment_len(c, k) ==
    Min((k + 1) * segment_data_len(c), c.len) - segment_start(c, k)

\* `if segment_count > usize::from(u8::MAX) + 1`
NeverTooMany(n) == FALSE
TooManySegments(n) == n > U8_MAX + 1

\* vec![0u8; npdu_bytes.len() + 16 + segment.len()]
SegmentTxBufNoHeadroom(n) == NPDU_LEN + n
SegmentTxBuf(n) == NPDU_LEN + SEGMENT_TX_HEADROOM + n

\* Writer::write_all / ConfirmedRequestHeader::encode fit the buffer.
SegmentEncodes(c, k) ==
    NPDU_LEN + SEGMENT_HEADER_LEN + segment_len(c, k) <= SegmentTxBuf(segment_len(c, k))

\* The segmented Confirmed-Request frame of segment k.
SegmentFrame(t, k) ==
    Tx(call[t].address, "ConfirmedRequest", id[t], call[t].service_choice, TRUE,
       k + 1 < seg[t].segment_count, k % (U8_MAX + 1), seg[t].frame_window,
       segment_len(call[t], k))
    @@ [start |-> segment_start(call[t], k)]

WholeFrame(t) ==
    Tx(call[t].address, "ConfirmedRequest", id[t], call[t].service_choice, FALSE,
       FALSE, 0, 0, call[t].len)

\* The head of the `while batch_start < segment_count` body: the frames of the
\* batch that starts at `start`, built with the current window.
Batch(sg, start, window) ==
    [sg EXCEPT !.batch_start = start,
               !.batch_end = Min(start + window, sg.segment_count),
               !.next = start,
               !.window_size = window,
               !.frame_window = window,
               !.retries_remaining = segmented_request_retries]

\* The call returns r: the request_io_lock guard and the locals drop.
Return(t, r) ==
    /\ pc' = [pc EXCEPT ![t] = "done"]
    /\ result' = [result EXCEPT ![t] = r]
    /\ request_io_lock' = NoTask
    /\ deadline' = [deadline EXCEPT ![t] = 0]
    /\ rx' = [rx EXCEPT ![t] = NoRx]
    /\ seg' = [seg EXCEPT ![t] = NoSeg]
    /\ rea' = [rea EXCEPT ![t] = NoRea]

\* tokio::sync::Mutex::lock completes only while nobody holds the mutex.
LockAlwaysFree(holder) == TRUE
LockFree(holder) == holder = NoTask

\* await_simple_ack_or_error / await_complex_ack_payload_or_error:
\*   let _io_lock = self.request_io_lock.lock().await;
\*   let deadline = Instant::now() + timeout_window;
LockIo(t) ==
    /\ pc[t] = "have_id"
    /\ Fits(call[t])
    /\ LockFree(request_io_lock)
    /\ request_io_lock' = t
    /\ deadline' = [deadline EXCEPT ![t] = now + response_timeout]
    /\ pc' = [pc EXCEPT ![t] = "send"]
    /\ UNCHANGED <<idVars, rx, seg, rea, sent, accepted, seen, found, now, call, id, result, ncalls,
                   listener, bipVars, libVars>>

\* send_confirmed_request up to its first send: one frame when the body fits a
\* segment, none when it needs more than 256, else the first batch is built.
SendRequest(t) ==
    /\ pc[t] = "send"
    /\ LET n == segment_count(call[t])
           configured_window_size == Max(segmented_request_window_size, 1)
       IN
       IF n <= 1
       THEN \E e \in SendResults :
               IF e = "ok"
               THEN /\ sent' = [sent EXCEPT ![t] = Append(@, WholeFrame(t))]
                    /\ pc' = [pc EXCEPT ![t] = "resp_wait"]
                    /\ UNCHANGED <<request_io_lock, deadline, rx, seg, rea, result>>
               ELSE /\ Return(t, ResDataLink(e))
                    /\ UNCHANGED sent
       ELSE IF TooManySegments(n)
       THEN /\ Return(t, Res("SegmentedRequestTooLarge"))
            /\ UNCHANGED sent
       ELSE IF \A k \in 0..(n - 1) : SegmentEncodes(call[t], k)
       THEN /\ seg' = [seg EXCEPT ![t] =
                         Batch([NoSeg EXCEPT !.segment_count = n,
                                             !.peer_window_ceiling = configured_window_size],
                               0, configured_window_size)]
            /\ pc' = [pc EXCEPT ![t] = "send_batch"]
            /\ UNCHANGED <<request_io_lock, deadline, rx, rea, result, sent>>
       ELSE /\ Return(t, Res("Encode"))
            /\ UNCHANGED sent
    /\ UNCHANGED <<idVars, accepted, seen, found, now, call, id, ncalls, listener, bipVars, libVars>>

\* let ack_wait_deadline = Instant::now() + remaining.min(self.segment_ack_timeout)
AckWaitDeadlineUncapped(n, d) == n + segment_ack_timeout
AckWaitDeadline(n, d) == n + Min(d - n, segment_ack_timeout)

\* One `self.datalink.send(address, frame).await?` of the batch loop and, after
\* the last frame of the batch, the code up to the segment-ack wait.
SendSegment(t) ==
    /\ pc[t] = "send_batch"
    /\ \E e \in SendResults :
        IF e # "ok"
        THEN /\ Return(t, ResDataLink(e))
             /\ UNCHANGED sent
        ELSE /\ sent' = [sent EXCEPT ![t] = Append(@, SegmentFrame(t, seg[t].next))]
             /\ IF seg[t].next + 1 < seg[t].batch_end
                THEN /\ seg' = [seg EXCEPT ![t].next = @ + 1]
                     /\ UNCHANGED <<pc, result, request_io_lock, deadline, rx, rea>>
                ELSE IF seg[t].batch_end = seg[t].segment_count
                THEN /\ pc' = [pc EXCEPT ![t] = "resp_wait"]
                     /\ seg' = [seg EXCEPT ![t] = NoSeg]
                     /\ UNCHANGED <<result, request_io_lock, deadline, rx, rea>>
                ELSE IF deadline[t] - now <= 0
                THEN Return(t, Res("Timeout"))
                ELSE /\ seg' = [seg EXCEPT ![t].next = @ + 1,
                                           ![t].ack_deadline =
                                               AckWaitDeadline(now, deadline[t])]
                     /\ pc' = [pc EXCEPT ![t] = "ack_wait"]
                     /\ UNCHANGED <<result, request_io_lock, deadline, rx, rea>>
    /\ UNCHANGED <<idVars, accepted, seen, found, now, call, id, ncalls, listener, bipVars, libVars>>

\* ------------------------------------------------------- await_segment_ack

Cont == [kind |-> "continue", num |-> 0]
Out(kind) == [kind |-> kind, num |-> 0]
OutNum(kind, n) == [kind |-> kind, num |-> n]

\* `if src != address { continue; }`
FromAnyPeer(r, address) == TRUE
FromTarget(r, address) == r.src = address

\* `x.invoke_id == invoke_id && x.service_choice == service_choice`
MatchesServiceOnly(r, invoke, svc) == r.service_choice = svc
MatchesInvokeOnly(r, invoke, svc) == r.invoke_id = invoke
Matches(r, invoke, svc) == r.invoke_id = invoke /\ r.service_choice = svc

\* The Error / Reject / Abort arms every receive loop of an exchange has.
RemoteStep(r, invoke, svc) ==
    IF r.wf = "truncated" THEN Out("Decode")
    ELSE IF r.pdu = "Error" /\ Matches(r, invoke, svc)
    THEN Out("RemoteServiceError")
    ELSE IF r.pdu = "Reject" /\ r.invoke_id = invoke THEN Out("RemoteReject")
    ELSE IF r.pdu = "Abort" /\ r.invoke_id = invoke THEN Out("RemoteAbort")
    ELSE Cont

\* `if ack.sequence_number == expected_sequence`
AcksAnySequence(ack, expected_sequence) == TRUE
AcksBatch(ack, expected_sequence) == ack.sequence_number = expected_sequence

\* One turn of await_segment_ack's loop on what recv returned.
AwaitSegmentAckStep(r, address, invoke, svc, expected) ==
    IF r.err = "InvalidFrame" THEN Cont
    ELSE IF r.err # "" THEN Out("DataLink")
    ELSE IF ~FromTarget(r, address) THEN Cont
    ELSE IF r.wf = "bad_npdu" THEN Cont
    ELSE IF r.wf = "empty" THEN Out("UnsupportedResponse")
    ELSE IF r.pdu = "SegmentAck"
    THEN IF r.wf = "truncated" THEN Out("Decode")
         ELSE IF r.invoke_id # invoke \/ ~r.sent_by_server THEN Cont
         ELSE IF r.negative_ack THEN OutNum("SegmentNegativeAck", r.sequence_number)
         ELSE IF AcksBatch(r, expected) THEN Out("ack")
         ELSE Cont
    ELSE IF r.pdu \in {"Error", "Reject", "Abort"} THEN RemoteStep(r, invoke, svc)
    ELSE Cont

OutcomeResult(o, r) ==
    IF o.kind = "DataLink" THEN ResDataLink(r.err) ELSE ResNum(o.kind, o.num)

\* timeout(remaining, self.datalink.recv(&mut rx)) returns what the link read.
RecvAckOf(t, F) ==
    /\ pc[t] = "ack_wait"
    /\ now < seg[t].ack_deadline
    /\ \E f \in F :
          /\ rx' = [rx EXCEPT ![t] = f]
          /\ seen' = [seen EXCEPT ![t] = @ \cup Met(f, call[t].address)]
    /\ pc' = [pc EXCEPT ![t] = "ack_got"]
    /\ UNCHANGED <<idVars, request_io_lock, deadline, seg, rea, sent, accepted, found,
                   now, call, id, result, ncalls, listener, bipVars, libVars>>

RecvAck(t) == RecvAckOf(t, ExchangeRx(call[t].address, id[t], call[t].service_choice))

\* Err(ClientError::Timeout | ClientError::SegmentNegativeAck { .. })
RetryableAnyError(o) == TRUE
Retryable(o) == o.kind \in {"Timeout", "SegmentNegativeAck"}

\* window_size.saturating_add(1).min(configured_window_size)
\*     .min(peer_window_ceiling).max(1)
GrowWindowNoPeer(w, ceiling) ==
    Max(Min(Min(w + 1, U8_MAX), Max(segmented_request_window_size, 1)), 1)
GrowWindow(w, ceiling) ==
    Max(Min(Min(Min(w + 1, U8_MAX), Max(segmented_request_window_size, 1)),
            ceiling), 1)

\* peer_window_ceiling.min(ack.actual_window_size.max(1))
PeerCeilingOfLastAck(ceiling, actual_window_size) ==
    Min(Max(segmented_request_window_size, 1), Max(actual_window_size, 1))
PeerCeiling(ceiling, actual_window_size) == Min(ceiling, Max(actual_window_size, 1))

\* window_size.saturating_div(2).max(1)
KeepWindow(w) == w
HalveWindow(w) == Max(w \div 2, 1)

\* `if retries_remaining > 0`
RetryAlwaysLeft(n) == TRUE
RetryLeft(n) == n > 0

\* send_confirmed_request's match on await_segment_ack's result.
\*   Ok(ack): the window follows the peer and the next batch is built;
\*   Timeout / SegmentNegativeAck with a retry left: the batch is sent again;
\*   any other error is returned.
AfterAck(t, o, r) ==
    IF o.kind = "ack"
    THEN LET ceiling == PeerCeiling(seg[t].peer_window_ceiling, r.window)
             window == GrowWindow(seg[t].window_size, ceiling)
         IN
         /\ seg' = [seg EXCEPT ![t] =
                      Batch([seg[t] EXCEPT !.peer_window_ceiling = ceiling],
                            seg[t].batch_end, window)]
         /\ pc' = [pc EXCEPT ![t] = "send_batch"]
         /\ rx' = [rx EXCEPT ![t] = NoRx]
         /\ UNCHANGED <<result, request_io_lock, deadline, rea>>
    ELSE IF Retryable(o) /\ RetryLeft(seg[t].retries_remaining)
    THEN /\ seg' = [seg EXCEPT ![t].retries_remaining = @ - 1,
                               ![t].window_size = HalveWindow(@),
                               ![t].next = seg[t].batch_start]
         /\ pc' = [pc EXCEPT ![t] = "send_batch"]
         /\ rx' = [rx EXCEPT ![t] = NoRx]
         /\ UNCHANGED <<result, request_io_lock, deadline, rea>>
    ELSE Return(t, OutcomeResult(o, r))

\* The loop body of await_segment_ack on a received frame or error.
HandleAck(t) ==
    /\ pc[t] = "ack_got"
    /\ LET o == AwaitSegmentAckStep(rx[t], call[t].address, id[t],
                                    call[t].service_choice,
                                    (seg[t].batch_end - 1) % (U8_MAX + 1))
       IN IF o.kind = "continue"
          THEN /\ pc' = [pc EXCEPT ![t] = "ack_wait"]
               /\ rx' = [rx EXCEPT ![t] = NoRx]
               /\ UNCHANGED <<result, request_io_lock, deadline, seg, rea>>
          ELSE AfterAck(t, o, rx[t])
    /\ UNCHANGED <<idVars, sent, accepted, seen, found, now, call, id, ncalls, listener, bipVars, libVars>>

\* The segment-ack wait's timer fires: await_segment_ack returns Timeout.
AckTimeout(t) ==
    /\ pc[t] = "ack_wait"
    /\ now >= seg[t].ack_deadline
    /\ AfterAck(t, Out("Timeout"), rx[t])
    /\ UNCHANGED <<idVars, sent, accepted, seen, found, now, call, id, ncalls, listener, bipVars, libVars>>

\* ------------------- await_simple_ack_or_error / await_complex_ack_payload_or_error

\* recv_ignoring_invalid_frame: Ok(Err(DataLinkError::InvalidFrame)) => continue
IgnoresNoError(e) == FALSE
IgnoredRecvError(e) == e = "InvalidFrame"

\* One turn of the response loop of a call of the given kind ("simple" waits
\* for a Simple-Ack, "complex" for a Complex-Ack) on what recv returned.
AwaitResponseStep(r, kind, address, invoke, svc) ==
    IF IgnoredRecvError(r.err) THEN Cont
    ELSE IF r.err # "" THEN Out("DataLink")
    ELSE IF ~FromTarget(r, address) THEN Cont
    ELSE IF r.wf = "bad_npdu" THEN Out("Decode")
    ELSE IF r.wf = "empty" THEN Out("UnsupportedResponse")
    ELSE IF kind = "simple" /\ r.pdu = "SimpleAck"
    THEN IF r.wf = "truncated" THEN Out("Decode")
         ELSE IF Matches(r, invoke, svc) THEN Out("Ok")
         ELSE Cont
    ELSE IF kind = "complex" /\ r.pdu = "ComplexAck"
    THEN IF r.wf = "truncated" THEN Out("Decode")
         ELSE IF ~Matches(r, invoke, svc) THEN Cont
         ELSE Out("collect")
    ELSE IF r.pdu \in {"Error", "Reject", "Abort"} THEN RemoteStep(r, invoke, svc)
    ELSE Cont

\* send_segment_ack's frame.
SegmentAckFrameFixedWindow(t, seq, window) ==
    Tx(call[t].address, "SegmentAck", id[t], 0, FALSE, FALSE, seq, 1, 0)
SegmentAckFrame(t, seq, window) ==
    Tx(call[t].address, "SegmentAck", id[t], 0, FALSE, FALSE, seq, window, 0)

\* A complex-ack segment as the history `accepted` records it.
Accepted(r) ==
    [sequence_number |-> r.sequence_number, more_follows |-> r.more_follows,
     window |-> r.window, payload |-> r.payload]

\* payload.extend_from_slice(seg_payload)
PrependSegment(payload, seg_payload) == seg_payload \o payload
AppendSegment(payload, seg_payload) == payload \o seg_payload

\* recv_ignoring_invalid_frame hands the response loop what the link read.
RecvRespOf(t, F) ==
    /\ pc[t] = "resp_wait"
    /\ now < deadline[t]
    /\ \E f \in F :
          /\ rx' = [rx EXCEPT ![t] = f]
          /\ seen' = [seen EXCEPT ![t] = @ \cup Met(f, call[t].address)]
    /\ pc' = [pc EXCEPT ![t] = "resp_got"]
    /\ UNCHANGED <<idVars, request_io_lock, deadline, seg, rea, sent, accepted, found,
                   now, call, id, result, ncalls, listener, bipVars, libVars>>

RecvResp(t) == RecvRespOf(t, ExchangeRx(call[t].address, id[t], call[t].service_choice))

\* `while Instant::now() < deadline` ends, or the timed recv expires.
RespTimeout(t) ==
    /\ pc[t] = "resp_wait"
    /\ now >= deadline[t]
    /\ Return(t, Res("Timeout"))
    /\ UNCHANGED <<idVars, sent, accepted, seen, found, now, call, id, ncalls, listener, bipVars, libVars>>

\* `payload.len() > MAX_COMPLEX_ACK_REASSEMBLY_BYTES`
NeverExceeds(n) == FALSE
ExceedsLimit(n) == n > MAX_COMPLEX_ACK_REASSEMBLY_BYTES

\* collect_complex_ack_payload up to its loop, on the first Complex-Ack r.
CollectFirst(t, r) ==
    IF ExceedsLimit(PayloadLen(r.payload))
    THEN /\ Return(t, ResNum("ResponseTooLarge", MAX_COMPLEX_ACK_REASSEMBLY_BYTES))
         /\ UNCHANGED <<sent, accepted>>
    ELSE IF ~r.segmented
    THEN /\ Return(t, ResOk(r.payload))
         /\ accepted' = [accepted EXCEPT ![t] = <<Accepted(r)>>]
         /\ UNCHANGED sent
    ELSE \E e \in SendResults :
           IF e # "ok"
           THEN /\ Return(t, ResDataLink(e))
                /\ UNCHANGED <<sent, accepted>>
           ELSE /\ sent' = [sent EXCEPT ![t] =
                              Append(@, SegmentAckFrame(t, r.sequence_number, r.window))]
                /\ accepted' = [accepted EXCEPT ![t] = <<Accepted(r)>>]
                /\ IF r.more_follows
                   THEN /\ rea' = [rea EXCEPT ![t] =
                                     [payload |-> r.payload,
                                      last_seq |-> r.sequence_number,
                                      window_size |-> r.window,
                                      more_follows |-> TRUE]]
                        /\ pc' = [pc EXCEPT ![t] = "reasm_wait"]
                        /\ rx' = [rx EXCEPT ![t] = NoRx]
                        /\ UNCHANGED <<result, request_io_lock, deadline, seg>>
                   ELSE Return(t, ResOk(r.payload))

\* The body of the response loop on a received frame or error.
HandleResp(t) ==
    /\ pc[t] = "resp_got"
    /\ LET o == AwaitResponseStep(rx[t], call[t].kind, call[t].address, id[t],
                                  call[t].service_choice)
       IN IF o.kind = "continue"
          THEN /\ pc' = [pc EXCEPT ![t] = "resp_wait"]
               /\ rx' = [rx EXCEPT ![t] = NoRx]
               /\ UNCHANGED <<result, request_io_lock, deadline, seg, rea, sent, accepted>>
          ELSE IF o.kind = "Ok"
          THEN /\ Return(t, ResOk(<<>>))
               /\ UNCHANGED <<sent, accepted>>
          ELSE IF o.kind = "collect"
          THEN CollectFirst(t, rx[t])
          ELSE /\ Return(t, OutcomeResult(o, rx[t]))
               /\ UNCHANGED <<sent, accepted>>
    /\ UNCHANGED <<idVars, seen, found, now, call, id, ncalls, listener, bipVars, libVars>>

\* ---------------------------------------------- collect_complex_ack_payload

\* `if seq == last_seq`: the segment repeats the last accepted one.
NeverDuplicate(seq, last_seq) == FALSE
IsDuplicate(seq, last_seq) == seq = last_seq

\* `if seq != last_seq.wrapping_add(1) { continue; }` lets the successor through.
AnySequence(seq, last_seq) == TRUE
IsNextSegment(seq, last_seq) == seq = WrapAdd1(last_seq)

\* One turn of the `while more_follows` loop on what recv returned.
CollectStep(r, address, invoke, svc, last_seq, payload) ==
    IF IgnoredRecvError(r.err) THEN Cont
    ELSE IF r.err # "" THEN Out("DataLink")
    ELSE IF ~FromTarget(r, address) THEN Cont
    ELSE IF r.wf = "bad_npdu" THEN Cont
    ELSE IF r.wf = "empty" THEN Out("UnsupportedResponse")
    ELSE IF r.pdu = "ComplexAck"
    THEN IF r.wf = "truncated" THEN Out("Decode")
         ELSE IF ~Matches(r, invoke, svc) THEN Cont
         ELSE IF ~r.segmented THEN Out("UnsupportedResponse")
         ELSE IF IsDuplicate(r.sequence_number, last_seq) THEN Out("reack")
         ELSE IF ~IsNextSegment(r.sequence_number, last_seq) THEN Cont
         ELSE IF ExceedsLimit(PayloadLen(payload) + PayloadLen(r.payload))
         THEN OutNum("ResponseTooLarge", MAX_COMPLEX_ACK_REASSEMBLY_BYTES)
         ELSE Out("append")
    ELSE IF r.pdu \in {"Error", "Reject", "Abort"} THEN RemoteStep(r, invoke, svc)
    ELSE Cont

RecvReasmOf(t, F, bound) ==
    /\ pc[t] = "reasm_wait"
    /\ now < deadline[t]
    /\ Len(sent[t]) < bound
    /\ \E f \in F :
          /\ rx' = [rx EXCEPT ![t] = f]
          /\ seen' = [seen EXCEPT ![t] = @ \cup Met(f, call[t].address)]
    /\ pc' = [pc EXCEPT ![t] = "reasm_got"]
    /\ UNCHANGED <<idVars, request_io_lock, deadline, seg, rea, sent, accepted, found,
                   now, call, id, result, ncalls, listener, bipVars, libVars>>

RecvReasm(t) ==
    RecvReasmOf(t, ExchangeRx(call[t].address, id[t], call[t].service_choice), MaxSent)

\* recv_ignoring_invalid_frame: the deadline is reached.
ReasmTimeout(t) ==
    /\ pc[t] = "reasm_wait"
    /\ now >= deadline[t]
    /\ Return(t, Res("Timeout"))
    /\ UNCHANGED <<idVars, sent, accepted, seen, found, now, call, id, ncalls, listener, bipVars, libVars>>

\* History: r is the segment that follows the last one recorded in `accepted`:
\* a well-formed segmented Complex-Ack of this exchange from the target whose
\* sequence number is the successor (mod 256) of the last recorded one.
NextInSequence(r, t) ==
    /\ r.err = ""
    /\ r.wf = "ok"
    /\ r.pdu = "ComplexAck"
    /\ r.src = call[t].address
    /\ r.invoke_id = id[t]
    /\ r.service_choice = call[t].service_choice
    /\ r.segmented
    /\ accepted[t] # <<>>
    /\ r.sequence_number =
          (accepted[t][Len(accepted[t])].sequence_number + 1) % (U8_MAX + 1)

\* History: r is a segment of this exchange from the target that neither
\* repeats nor follows the last segment recorded in `accepted`.
OutOfSequence(r, t) ==
    /\ r.err = ""
    /\ r.wf = "ok"
    /\ r.pdu = "ComplexAck"
    /\ r.src = call[t].address
    /\ r.invoke_id = id[t]
    /\ r.service_choice = call[t].service_choice
    /\ r.segmented
    /\ accepted[t] # <<>>
    /\ r.sequence_number # accepted[t][Len(accepted[t])].sequence_number
    /\ r.sequence_number #
          (accepted[t][Len(accepted[t])].sequence_number + 1) % (U8_MAX + 1)

\* The body of the reassembly loop on a received frame or error.
HandleReasm(t) ==
    /\ pc[t] = "reasm_got"
    /\ LET r == rx[t]
           o == CollectStep(r, call[t].address, id[t], call[t].service_choice,
                            rea[t].last_seq, rea[t].payload)
           back == /\ pc' = [pc EXCEPT ![t] = "reasm_wait"]
                   /\ rx' = [rx EXCEPT ![t] = NoRx]
                   /\ UNCHANGED <<result, request_io_lock, deadline, seg>>
       IN IF o.kind = "continue"
          THEN /\ back
               /\ UNCHANGED <<rea, sent>>
          ELSE IF o.kind = "reack"
          THEN \E e \in SendResults :
                 IF e = "ok"
                 THEN /\ sent' = [sent EXCEPT ![t] =
                                    Append(@, SegmentAckFrame(t, rea[t].last_seq,
                                                              rea[t].window_size))]
                      /\ back
                      /\ UNCHANGED rea
                 ELSE /\ Return(t, ResDataLink(e))
                      /\ UNCHANGED sent
          ELSE IF o.kind = "append"
          THEN LET payload == AppendSegment(rea[t].payload, r.payload) IN
               /\ \E e \in SendResults :
                    IF e # "ok"
                    THEN /\ Return(t, ResDataLink(e))
                         /\ UNCHANGED sent
                    ELSE /\ sent' = [sent EXCEPT ![t] =
                                       Append(@, SegmentAckFrame(t, r.sequence_number,
                                                                 r.window))]
                         /\ IF r.more_follows
                            THEN /\ rea' = [rea EXCEPT ![t] =
                                              [payload |-> payload,
                                               last_seq |-> r.sequence_number,
                                               window_size |-> r.window,
                                               more_follows |-> TRUE]]
                                 /\ back
                            ELSE Return(t, ResOk(payload))
          ELSE /\ Return(t, OutcomeResult(o, r))
               /\ UNCHANGED sent
    /\ accepted' = [accepted EXCEPT ![t] =
                      IF NextInSequence(rx[t], t) THEN Append(@, Accepted(rx[t])) ELSE @]
    /\ seen' = [seen EXCEPT ![t] =
                  IF OutOfSequence(rx[t], t) THEN @ \cup {"out_of_sequence"} ELSE @]
    /\ UNCHANGED <<idVars, found, now, call, id, ncalls, listener, bipVars, libVars>>

\* ------------------------------------------------------------------- time

\* The instant a task's timed receive gives up.
WaitDeadline(t) ==
    IF pc[t] = "ack_wait" THEN seg[t].ack_deadline ELSE deadline[t]

TimedWaits == {"ack_wait", "resp_wait", "reasm_wait", "n_wait", "d_wait"}
LockWaits == {"have_id", "n_lock", "d_lock"}
Parked == {"idle", "done"}

\* The clock advances while a task is suspended in a timed receive; a timer
\* that has run out fires before the clock moves on.
Tick ==
    /\ \E t \in Tasks : pc[t] \in TimedWaits
    /\ \A t \in Tasks :
          \/ pc[t] \in Parked
          \/ pc[t] \in LockWaits /\ request_io_lock # NoTask
          \/ pc[t] \in TimedWaits /\ now < WaitDeadline(t)
    /\ now' = now + 1
    /\ UNCHANGED <<idVars, xchgVars, pc, call, id, result, ncalls, listener, bipVars, libVars>>

\* ------------------------------------------------------------------ calls

\* Confirmed calls: a simple-ack service (write_property) whose request needs
\* one, two or three segments, and a complex-ack service (read_property).
SimpleRequests ==
    {[kind |-> "simple", address |-> "A", service_choice |-> SERVICE_WRITE_PROPERTY,
      len |-> n, max_apdu |-> 5] : n \in {10, 2942, 4000}}
ComplexRequests ==
    {[kind |-> "complex", address |-> "A", service_choice |-> SERVICE_READ_PROPERTY,
      len |-> 10, max_apdu |-> 5]}
Requests == SimpleRequests \cup ComplexRequests

Call(t, c) ==
    /\ ncalls < MaxCalls
    /\ Start(t, c)

\* ------------------------------- recv_cov_notification / recv_event_notification

\* Everything datalink.recv may hand to a reader that is not in an exchange.
UnsolicitedRx ==
    {FUnconfirmedRequest(src, svc) :
        src \in Addrs,
        svc \in {SERVICE_I_AM, SERVICE_I_HAVE, SERVICE_UNCONFIRMED_COV_NOTIFICATION,
                 SERVICE_UNCONFIRMED_EVENT_NOTIFICATION}}
    \cup {FConfirmedRequest(src, 7, svc, sg) :
            src \in Addrs,
            svc \in {SERVICE_CONFIRMED_COV_NOTIFICATION,
                     SERVICE_CONFIRMED_EVENT_NOTIFICATION},
            sg \in BOOLEAN}
    \cup {[FConfirmedRequest("A", 7, svc, FALSE) EXCEPT !.wf = "bad_body"] :
            svc \in {SERVICE_CONFIRMED_COV_NOTIFICATION,
                     SERVICE_CONFIRMED_EVENT_NOTIFICATION}}
    \cup {FSimpleAck("A", 1, SERVICE_WRITE_PROPERTY), FBad("A", "empty", "none")}
    \cup RecvErrors

NotifyCall(kind) ==
    [kind |-> kind, address |-> "A", service_choice |-> 0, len |-> 0, max_apdu |-> 0]

UnconfirmedService(kind) ==
    IF kind = "recv_cov" THEN SERVICE_UNCONFIRMED_COV_NOTIFICATION
    ELSE SERVICE_UNCONFIRMED_EVENT_NOTIFICATION
ConfirmedService(kind) ==
    IF kind = "recv_cov" THEN SERVICE_CONFIRMED_COV_NOTIFICATION
    ELSE SERVICE_CONFIRMED_EVENT_NOTIFICATION

\* A caller starts recv_cov_notification(wait) or recv_event_notification(wait).
StartNotify(t, kind) ==
    /\ pc[t] = "idle"
    /\ ncalls < MaxOps
    /\ call' = [call EXCEPT ![t] = NotifyCall(kind)]
    /\ pc' = [pc EXCEPT ![t] = "n_lock"]
    /\ ncalls' = ncalls + 1
    /\ UNCHANGED <<idVars, xchgVars, now, id, result, listener, bipVars, libVars>>

\* let _io_lock = self.request_io_lock.lock().await; let deadline = now + wait;
NotifyLock(t) ==
    /\ pc[t] = "n_lock"
    /\ LockFree(request_io_lock)
    /\ request_io_lock' = t
    /\ deadline' = [deadline EXCEPT ![t] = now + NotifyWait]
    /\ pc' = [pc EXCEPT ![t] = "n_wait"]
    /\ UNCHANGED <<idVars, rx, seg, rea, sent, accepted, seen, found, now, call, id,
                   result, ncalls, listener, bipVars, libVars>>

\* timeout(remaining, self.datalink.recv(&mut rx)) returns what the link read.
NotifyRecv(t) ==
    /\ pc[t] = "n_wait"
    /\ now < deadline[t]
    /\ \E f \in UnsolicitedRx : rx' = [rx EXCEPT ![t] = f]
    /\ pc' = [pc EXCEPT ![t] = "n_got"]
    /\ UNCHANGED <<idVars, request_io_lock, deadline, seg, rea, sent, accepted, seen,
                   found, now, call, id, result, ncalls, listener, bipVars, libVars>>

\* The wait budget ran out: Ok(None).
NotifyTimeout(t) ==
    /\ pc[t] = "n_wait"
    /\ now >= deadline[t]
    /\ Return(t, ResNum("Ok", 0))
    /\ UNCHANGED <<idVars, sent, accepted, seen, found, now, call, id, ncalls, listener, bipVars, libVars>>

\* One turn of the notification loop on what recv returned; wf "bad_body" is a
\* notification whose service data decode_after_header cannot decode.
NotifyStep(r, kind) ==
    IF r.err # "" THEN Out("DataLink")
    ELSE IF r.wf = "bad_npdu" THEN Out("Decode")
    ELSE IF r.wf = "empty" THEN Out("UnsupportedResponse")
    ELSE IF r.pdu = "UnconfirmedRequest"
    THEN IF r.wf = "truncated" THEN Out("Decode")
         ELSE IF r.service_choice # UnconfirmedService(kind) THEN Cont
         ELSE IF r.wf = "bad_body" THEN Out("Decode")
         ELSE Out("Ok")
    ELSE IF r.pdu = "ConfirmedRequest"
    THEN IF r.wf = "truncated" THEN Out("Decode")
         ELSE IF r.service_choice # ConfirmedService(kind) THEN Cont
         ELSE IF r.segmented THEN Out("UnsupportedResponse")
         ELSE IF r.wf = "bad_body" THEN Out("Decode")
         ELSE Out("ack")
    ELSE Cont

\* send_simple_ack's frame.
SimpleAckFrameNoInvoke(dst, invoke, svc) ==
    Tx(dst, "SimpleAck", 0, svc, FALSE, FALSE, 0, 0, 0)
SimpleAckFrame(dst, invoke, svc) ==
    Tx(dst, "SimpleAck", invoke, svc, FALSE, FALSE, 0, 0, 0)

\* The body of the notification loop; a confirmed notification is acknowledged
\* to its source before it is returned.
NotifyHandle(t) ==
    /\ pc[t] = "n_got"
    /\ LET r == rx[t]
           o == NotifyStep(r, call[t].kind)
       IN IF o.kind = "continue"
          THEN /\ pc' = [pc EXCEPT ![t] = "n_wait"]
               /\ rx' = [rx EXCEPT ![t] = NoRx]
               /\ UNCHANGED <<result, request_io_lock, deadline, seg, rea, sent>>
          ELSE IF o.kind = "Ok"
          THEN /\ Return(t, ResNum("Ok", 1))
               /\ UNCHANGED sent
          ELSE IF o.kind = "ack"
          THEN \E e \in SendResults :
                 IF e = "ok"
                 THEN /\ sent' = [sent EXCEPT ![t] =
                                    Append(@, SimpleAckFrame(r.src, r.invoke_id,
                                                             ConfirmedService(call[t].kind)))]
                      /\ Return(t, ResNum("Ok", 1))
                 ELSE /\ Return(t, ResDataLink(e))
                      /\ UNCHANGED sent
          ELSE /\ Return(t, OutcomeResult(o, r))
               /\ UNCHANGED sent
    /\ UNCHANGED <<idVars, accepted, seen, found, now, call, id, ncalls, listener, bipVars, libVars>>

\* ------------------------------------------------------------ who_is / who_has

DiscoveryService(kind) == IF kind = "who_is" THEN SERVICE_I_AM ELSE SERVICE_I_HAVE

\* What the `seen` HashSet is keyed on: the source (who_is), or the source and
\* the object id (who_has).  The first element of an I-Am's payload is its
\* device id and of an I-Have's its object id; the rest is the other fields.
DiscoveryKeyWholeFrame(kind, r) == <<r.src, r.payload>>
DiscoveryKey(kind, r) ==
    IF kind = "who_is" THEN <<r.src>> ELSE <<r.src, Head(r.payload)>>

\* The DiscoveredDevice / DiscoveredObject pushed for an answer: its source
\* address and the decoded fields.
DiscoveryEntry(r) == [src |-> r.src, payload |-> r.payload]

StartDiscovery(t, kind) ==
    /\ pc[t] = "idle"
    /\ ncalls < MaxOps
    /\ call' = [call EXCEPT ![t] = NotifyCall(kind)]
    /\ pc' = [pc EXCEPT ![t] = "d_lock"]
    /\ ncalls' = ncalls + 1
    /\ UNCHANGED <<idVars, xchgVars, now, id, result, listener, bipVars, libVars>>

\* The lock is taken, the request is broadcast, the wait budget starts.
DiscoveryLock(t) ==
    /\ pc[t] = "d_lock"
    /\ LockFree(request_io_lock)
    /\ \E e \in SendResults :
         IF e = "ok"
         THEN /\ request_io_lock' = t
              /\ sent' = [sent EXCEPT ![t] =
                            Append(@, Tx("broadcast", "UnconfirmedRequest", 0, 0, FALSE,
                                         FALSE, 0, 0, 0))]
              /\ deadline' = [deadline EXCEPT ![t] = now + DiscoveryWait]
              /\ pc' = [pc EXCEPT ![t] = "d_wait"]
              /\ UNCHANGED <<rx, seg, rea, result>>
         ELSE /\ Return(t, ResDataLink(e))
              /\ UNCHANGED sent
    /\ UNCHANGED <<idVars, accepted, seen, found, now, call, id, ncalls, listener, bipVars, libVars>>

DiscoveryRecvOf(t, F) ==
    /\ pc[t] = "d_wait"
    /\ now < deadline[t]
    /\ \E f \in F : rx' = [rx EXCEPT ![t] = f]
    /\ pc' = [pc EXCEPT ![t] = "d_got"]
    /\ UNCHANGED <<idVars, request_io_lock, deadline, seg, rea, sent, accepted, seen,
                   found, now, call, id, result, ncalls, listener, bipVars, libVars>>
DiscoveryRecv(t) == DiscoveryRecvOf(t, UnsolicitedRx)

\* The wait budget ran out: Ok(devices).
DiscoveryTimeout(t) ==
    /\ pc[t] = "d_wait"
    /\ now >= deadline[t]
    /\ Return(t, ResNum("Ok", Len(found[t])))
    /\ UNCHANGED <<idVars, sent, accepted, seen, found, now, call, id, ncalls, listener, bipVars, libVars>>

\* The body of the collection loop on what recv returned.
DiscoveryHandle(t) ==
    /\ pc[t] = "d_got"
    /\ LET r == rx[t]
           back == /\ pc' = [pc EXCEPT ![t] = "d_wait"]
                   /\ rx' = [rx EXCEPT ![t] = NoRx]
                   /\ UNCHANGED <<result, request_io_lock, deadline, seg, rea>>
       IN IF r.err = "InvalidFrame"
          THEN back /\ UNCHANGED found
          ELSE IF r.err # ""
          THEN Return(t, ResDataLink(r.err)) /\ UNCHANGED found
          ELSE IF /\ r.wf = "ok"
                  /\ r.pdu = "UnconfirmedRequest"
                  /\ r.service_choice = DiscoveryService(call[t].kind)
                  /\ \A i \in 1..Len(found[t]) :
                        DiscoveryKey(call[t].kind, found[t][i])
                            # DiscoveryKey(call[t].kind, r)
          THEN /\ back
               /\ found' = [found EXCEPT ![t] = Append(@, DiscoveryEntry(r))]
          ELSE back /\ UNCHANGED found
    /\ UNCHANGED <<idVars, sent, accepted, seen, now, call, id, ncalls, listener, bipVars, libVars>>

\* -------------------------------------------- create_notification_listener

\* What parse_notification makes of a frame: the notification it yields
\* ("none": the frame is dropped) and whether a Simple-Ack goes back.
parse_notification(r) ==
    IF r.err # "" \/ r.wf # "ok" THEN [kind |-> "none", ack |-> FALSE]
    ELSE IF r.pdu = "UnconfirmedRequest"
    THEN IF r.service_choice = SERVICE_UNCONFIRMED_COV_NOTIFICATION
         THEN [kind |-> "cov", ack |-> FALSE]
         ELSE IF r.service_choice = SERVICE_UNCONFIRMED_EVENT_NOTIFICATION
         THEN [kind |-> "event", ack |-> FALSE]
         ELSE [kind |-> "none", ack |-> FALSE]
    ELSE IF r.pdu = "ConfirmedRequest"
    THEN IF r.service_choice = SERVICE_CONFIRMED_COV_NOTIFICATION
         THEN [kind |-> "cov", ack |-> TRUE]
         ELSE IF r.service_choice = SERVICE_CONFIRMED_EVENT_NOTIFICATION
         THEN [kind |-> "event", ack |-> TRUE]
         ELSE [kind |-> "none", ack |-> FALSE]
    ELSE [kind |-> "none", ack |-> FALSE]

\* One turn of the driver loop: datalink.recv on the shared link, with no lock
\* taken, then parse_notification, the Simple-Ack and the channel send; the
\* record keeps what the turn did with the frame in buf and whether that frame
\* was a confirmed request with the segmented flag set.
ListenerRead ==
    /\ listener.reads < MaxListenerReads
    /\ \E f \in UnsolicitedRx :
         listener' = [reads |-> listener.reads + 1,
                      last |-> parse_notification(f).kind,
                      acked |-> parse_notification(f).ack,
                      segmented |-> f.pdu = "ConfirmedRequest" /\ f.segmented]
    /\ UNCHANGED <<idVars, xchgVars, now, pc, call, id, result, ncalls, bipVars, libVars>>

\* ------------------------------------------ BacnetIpTransport (bip/transport.rs)

\* The transport is one made by bind_foreign: its bbmd is Some(BbmdAddr).  Two
\* tasks use clones of it, which share the socket and bbmd_command_lock.
SockAddr(ip, port) == [ip |-> ip, port |-> port]
BbmdAddr == SockAddr(<<10, 0, 0, 1>>, 47808)
PeerAddr == SockAddr(<<10, 0, 0, 2>>, 47808)
OriginAddr == SockAddr(<<10, 0, 0, 9>>, 47809)
BroadcastAddr == SockAddr(<<255, 255, 255, 255>>, 47808)

\* u16::to_be_bytes, u16::from_be_bytes and the cast `as u16`.
to_be_bytes(v) == <<v \div 256, v % 256>>
from_be_bytes(b) == b[1] * 256 + b[2]
AsU16(n) == n % (U16_MAX + 1)

\* n bytes of payload whose values do not matter.
Fill(n) == [i \in 1..n |-> 0]

\* BvlcHeader::encode followed by write_all(payload) on a Writer over a buffer
\* of cap bytes: each write fails when the bytes left are too few.
EncodeFrame(cap, function, length, payload) ==
    IF cap < BVLC_HEADER_LEN THEN [err |-> "header", bytes |-> <<>>]
    ELSE IF cap - BVLC_HEADER_LEN < Len(payload) THEN [err |-> "payload", bytes |-> <<>>]
    ELSE [err |-> "",
          bytes |-> <<BVLC_TYPE_BIP, function>> \o to_be_bytes(length) \o payload]

\* BvlcHeader::decode on the bytes of a datagram.
BvlcHeaderDecode(bytes) ==
    IF Len(bytes) < 1 THEN [err |-> "UnexpectedEof", function |-> 0, length |-> 0]
    ELSE IF bytes[1] # BVLC_TYPE_BIP
    THEN [err |-> "InvalidValue", function |-> 0, length |-> 0]
    ELSE IF Len(bytes) < BVLC_HEADER_LEN
    THEN [err |-> "UnexpectedEof", function |-> 0, length |-> 0]
    ELSE LET length == from_be_bytes(<<bytes[3], bytes[4]>>)
         IN IF length < BVLC_HEADER_LEN
            THEN [err |-> "InvalidLength", function |-> 0, length |-> length]
            ELSE [err |-> "", function |-> bytes[2], length |-> length]

\* r.read_exact(hdr.length as usize - 4) after the header.
ReadPayload(bytes, hdr) ==
    IF Len(bytes) - BVLC_HEADER_LEN < hdr.length - BVLC_HEADER_LEN
    THEN [err |-> "UnexpectedEof", payload |-> <<>>]
    ELSE [err |-> "", payload |-> SubSeq(bytes, BVLC_HEADER_LEN + 1, hdr.length)]

\* The total length send and send_bvlc_to_bbmd compute for a payload.
TotalLenWithoutHeader(payload_len) == payload_len
total_len(payload_len) == BVLC_HEADER_LEN + payload_len

\* parse_bvlc_result.
parse_bvlc_result_low_byte(payload) ==
    IF Len(payload) < 2 THEN Res("InvalidFrame")
    ELSE IF payload[2] = 0 THEN Res("Ok") ELSE ResNum("BvlcResult", payload[2])
parse_bvlc_result(payload) ==
    IF Len(payload) < 2 THEN Res("InvalidFrame")
    ELSE LET code == from_be_bytes(<<payload[1], payload[2]>>)
         IN IF code = 0 THEN Res("Ok") ELSE ResNum("BvlcResult", code)

\* The administrative commands: the function each sends, the function of the
\* reply it awaits, and its payload (call.len is the TTL of a registration and
\* the number of entries of a written table).
ResultCommands ==
    {"register_foreign_device", "write_broadcast_distribution_table",
     "delete_foreign_device_table_entry"}
ReadCommands == {"read_broadcast_distribution_table", "read_foreign_device_table"}
WaitingCommands == ResultCommands \cup ReadCommands
Commands == WaitingCommands \cup {"register_foreign_device_no_wait"}

CommandFunction(kind) ==
    CASE kind \in {"register_foreign_device", "register_foreign_device_no_wait"}
            -> RegisterForeignDevice
      [] kind = "read_broadcast_distribution_table" -> ReadBroadcastDistributionTable
      [] kind = "write_broadcast_distribution_table" -> WriteBroadcastDistributionTable
      [] kind = "read_foreign_device_table" -> ReadForeignDeviceTable
      [] kind = "delete_foreign_device_table_entry" -> DeleteForeignDeviceTableEntry

ExpectedReply(kind) ==
    CASE kind = "read_broadcast_distribution_table" -> ReadBroadcastDistributionTableAck
      [] kind = "read_foreign_device_table" -> ReadForeignDeviceTableAck
      [] OTHER -> Result

CommandPayload(c) ==
    CASE c.kind \in {"register_foreign_device", "register_foreign_device_no_wait"}
            -> to_be_bytes(c.len)
      [] c.kind = "write_broadcast_distribution_table" -> Fill(10 * c.len)
      [] c.kind = "delete_foreign_device_table_entry"
            -> OriginAddr.ip \o to_be_bytes(OriginAddr.port)
      [] OTHER -> <<>>

BipCall(kind, address, len) ==
    [kind |-> kind, address |-> address, service_choice |-> 0, len |-> len,
     max_apdu |-> 0]

\* A frame passed to socket.send_to, with the call that sent it and the length
\* of the payload the call was given; for a command,
\* `state` follows the command ("outstanding" until it has its reply, has
\* failed or has timed out) and `answered` says the BBMD has replied.
Sent(t, dst, bytes, payload) ==
    [dst |-> dst, bytes |-> bytes, payload_len |-> Len(payload), task |-> t,
     op |-> call[t].kind,
     state |-> IF call[t].kind \in Commands THEN "outstanding" ELSE "data",
     answered |-> FALSE]

\* The frame of the command task t sent last.
CmdIndex(t) ==
    CHOOSE i \in 1..Len(wire) :
        /\ wire[i].task = t
        /\ \A j \in (i + 1)..Len(wire) : wire[j].task # t

\* The call of task t returns r; w is the record of frames sent.
BipReturn(t, r, w) ==
    /\ pc' = [pc EXCEPT ![t] = "done"]
    /\ result' = [result EXCEPT ![t] = r]
    /\ rx' = [rx EXCEPT ![t] = NoRx]
    /\ deadline' = [deadline EXCEPT ![t] = 0]
    /\ bbmd_command_lock' = IF bbmd_command_lock = t THEN NoTask ELSE bbmd_command_lock
    /\ wire' = w

\* How a command that waited ended, from what it returns.
EndState(r) ==
    IF r.kind = "TimedOut" THEN "timed_out"
    ELSE IF r.kind \in {"Ok", "BvlcResult"} THEN "replied"
    ELSE "failed"
Ended(t, r) == [wire EXCEPT ![CmdIndex(t)].state = EndState(r)]

\* A task calls an administrative command, DataLink::send or DataLink::recv.
BipStart(t, c) ==
    /\ pc[t] = "idle"
    /\ ncalls < MaxOps
    /\ call' = [call EXCEPT ![t] = c]
    /\ pc' = [pc EXCEPT ![t] =
                IF c.kind \in Commands THEN "b_lock" ELSE c.kind]
    /\ ncalls' = ncalls + 1
    /\ UNCHANGED <<clientVars, bipVars, now, deadline, rx, result>>

\* let _guard = self.bbmd_command_lock.lock().await;
BipLock(t) ==
    /\ pc[t] = "b_lock"
    /\ LockFree(bbmd_command_lock)
    /\ bbmd_command_lock' = t
    /\ pc' = [pc EXCEPT ![t] = "b_send"]
    /\ UNCHANGED <<clientVars, socket, wire, injected, now, deadline, rx, result, call,
                   ncalls>>

\* send_bvlc_to_bbmd; the fire-and-forget registration then returns, the other
\* commands enter recv_bvlc_reply with deadline = now + 2 s.
BipSend(t) ==
    /\ pc[t] = "b_send"
    /\ LET payload == CommandPayload(call[t])
           total == total_len(Len(payload))
           frame == EncodeFrame(total, CommandFunction(call[t].kind), AsU16(total),
                                payload)
       IN IF total > U16_MAX
          THEN BipReturn(t, Res("FrameTooLarge"), wire)
          ELSE IF frame.err # ""
          THEN BipReturn(t, Res("InvalidFrame"), wire)
          ELSE \E e \in SendResults :
                 IF e # "ok"
                 THEN BipReturn(t, Res(e), wire)
                 ELSE IF call[t].kind = "register_foreign_device_no_wait"
                 THEN BipReturn(t, Res("Ok"), Append(wire, Sent(t, BbmdAddr, frame.bytes, payload)))
                 ELSE /\ wire' = Append(wire, Sent(t, BbmdAddr, frame.bytes, payload))
                      /\ deadline' = [deadline EXCEPT ![t] = now + BBMD_REPLY_TIMEOUT]
                      /\ pc' = [pc EXCEPT ![t] = "b_wait"]
                      /\ UNCHANGED <<bbmd_command_lock, rx, result>>
    /\ UNCHANGED <<clientVars, socket, injected, now, call, ncalls>>

\* timeout(remaining, self.socket.recv_from(&mut rx)) in recv_bvlc_reply takes
\* a datagram from the socket.
BipRecvReply(t) ==
    /\ pc[t] = "b_wait"
    /\ now < deadline[t]
    /\ \E d \in socket :
         /\ socket' = socket \ {d}
         /\ rx' = [rx EXCEPT ![t] = d]
    /\ pc' = [pc EXCEPT ![t] = "b_got"]
    /\ UNCHANGED <<clientVars, bbmd_command_lock, wire, injected, now, deadline, result,
                   call, ncalls>>

\* The 2 s ran out: Io(TimedOut).
BipTimeout(t) ==
    /\ pc[t] = "b_wait"
    /\ now >= deadline[t]
    /\ BipReturn(t, Res("TimedOut"), Ended(t, Res("TimedOut")))
    /\ UNCHANGED <<clientVars, socket, injected, now, call, ncalls>>

\* One turn of recv_bvlc_reply's loop on datagram d: the payload it returns,
\* the error it returns, or "continue".
ReplyStep(d, expected) ==
    LET hdr == BvlcHeaderDecode(d.bytes)
        body == ReadPayload(d.bytes, hdr)
    IN IF d.src # BbmdAddr THEN [kind |-> "continue", res |-> NoResult]
       ELSE IF hdr.err # "" THEN [kind |-> "return", res |-> Res("InvalidFrame")]
       ELSE IF body.err # "" THEN [kind |-> "return", res |-> Res("InvalidFrame")]
       ELSE IF hdr.function = expected
       THEN [kind |-> "payload", res |-> ResOk(body.payload)]
       ELSE IF hdr.function = Result
       THEN IF parse_bvlc_result(body.payload).kind # "Ok"
            THEN [kind |-> "return", res |-> parse_bvlc_result(body.payload)]
            ELSE [kind |-> "return", res |-> Res("InvalidFrame")]
       ELSE [kind |-> "continue", res |-> NoResult]

\* What the command makes of the payload recv_bvlc_reply returned: the result
\* code, or the number of 10-byte table entries.
CommandResult(kind, payload) ==
    IF kind \in ResultCommands THEN parse_bvlc_result(payload)
    ELSE IF Len(payload) % 10 # 0 THEN Res("InvalidFrame")
    ELSE ResNum("Ok", Len(payload) \div 10)

BipHandleReply(t) ==
    /\ pc[t] = "b_got"
    /\ LET o == ReplyStep(rx[t], ExpectedReply(call[t].kind))
           r == IF o.kind = "payload"
                THEN CommandResult(call[t].kind, o.res.payload)
                ELSE o.res
       IN IF o.kind = "continue"
          THEN /\ pc' = [pc EXCEPT ![t] = "b_wait"]
               /\ rx' = [rx EXCEPT ![t] = NoRx]
               /\ UNCHANGED <<bbmd_command_lock, wire, deadline, result>>
          ELSE BipReturn(t, r, Ended(t, r))
    /\ UNCHANGED <<clientVars, socket, injected, now, call, ncalls>>

\* The length field of a BVLC header holds no more than u16::MAX.
LengthFieldLimit == U16_MAX
\* let mut frame = [0u8; MAX_BIP_FRAME_LEN]; frame.len() in DataLink::send.
frame_len == MAX_BIP_FRAME_LEN

\* DataLink::send(address, payload): call.address is the target and call.len
\* the payload's length.
DlSend(t) ==
    /\ pc[t] = "dl_send"
    /\ LET payload == Fill(call[t].len)
           is_broadcast == call[t].address.ip = <<255, 255, 255, 255>>
           function == IF is_broadcast THEN DistributeBroadcastToNetwork
                       ELSE OriginalUnicastNpdu
           target_addr == IF is_broadcast THEN BbmdAddr ELSE call[t].address
           total == total_len(Len(payload))
           frame == EncodeFrame(frame_len, function, AsU16(total), payload)
       IN IF total > frame_len
          THEN BipReturn(t, Res("FrameTooLarge"), wire)
          ELSE IF frame.err = "header"
          THEN BipReturn(t, Res("InvalidFrame"), wire)
          ELSE IF frame.err = "payload"
          THEN BipReturn(t, Res("FrameTooLarge"), wire)
          ELSE \E e \in SendResults :
                 IF e # "ok"
                 THEN BipReturn(t, Res(e), wire)
                 ELSE BipReturn(t, Res("Ok"),
                                Append(wire, Sent(t, target_addr, frame.bytes, payload)))
    /\ UNCHANGED <<clientVars, socket, injected, now, call, ncalls>>

\* What DataLink::recv returns for datagram d and a caller's buffer of
\* buf_len bytes: Ok((payload.len(), source)) with the payload copied, or an
\* error.
RecvOk(payload, src) == ResOk(payload) @@ [src |-> src]
OriginIsBbmd(forwarded) == BbmdAddr
OriginOf(forwarded) == SockAddr(SubSeq(forwarded, 1, 4),
                                from_be_bytes(SubSeq(forwarded, 5, 6)))
RecvResult(d, buf_len) ==
    LET hdr == BvlcHeaderDecode(d.bytes)
        body == ReadPayload(d.bytes, hdr)
    IN IF hdr.err # "" THEN Res("InvalidFrame")
       ELSE IF hdr.function \in {OriginalUnicastNpdu, OriginalBroadcastNpdu,
                                 DistributeBroadcastToNetwork}
       THEN IF body.err # "" THEN Res("InvalidFrame")
            ELSE IF Len(body.payload) > buf_len THEN Res("FrameTooLarge")
            ELSE RecvOk(body.payload, d.src)
       ELSE IF hdr.function = ForwardedNpdu
       THEN IF body.err # "" THEN Res("InvalidFrame")
            ELSE IF Len(body.payload) < 6 THEN Res("InvalidFrame")
            ELSE IF Len(body.payload) - 6 > buf_len THEN Res("FrameTooLarge")
            ELSE RecvOk(SubSeq(body.payload, 7, Len(body.payload)),
                        OriginOf(body.payload))
       ELSE IF hdr.function > OriginalBroadcastNpdu
       THEN ResNum("UnsupportedBvlcFunction", hdr.function)
       ELSE Res("InvalidFrame")

\* DataLink::recv(buf): socket.recv_from takes a datagram; call.len is the
\* length of the caller's buffer.  rx keeps the datagram taken.
DlRecv(t) ==
    /\ pc[t] = "dl_recv"
    /\ \E d \in socket :
         /\ socket' = socket \ {d}
         /\ pc' = [pc EXCEPT ![t] = "done"]
         /\ result' = [result EXCEPT ![t] = RecvResult(d, call[t].len)]
         /\ rx' = [rx EXCEPT ![t] = d]
    /\ UNCHANGED <<clientVars, bbmd_command_lock, wire, injected, now, deadline, call,
                   ncalls>>

\* The caller takes the result of a transport call.
BipFinish(t) ==
    /\ pc[t] = "done"
    /\ pc' = [pc EXCEPT ![t] = "idle"]
    /\ call' = [call EXCEPT ![t] = NoCall]
    /\ result' = [result EXCEPT ![t] = NoResult]
    /\ rx' = [rx EXCEPT ![t] = NoRx]
    /\ UNCHANGED <<clientVars, bipVars, now, deadline, ncalls>>

\* A frame as a peer builds it: the header's length is that of the frame.
PeerFrame(function, payload) ==
    <<BVLC_TYPE_BIP, function>> \o to_be_bytes(BVLC_HEADER_LEN + Len(payload)) \o payload
Datagram(src, bytes) == [src |-> src, bytes |-> bytes]

\* What the BBMD may answer to a command: a Result with code 0 or 0x0100, a
\* Result cut short, or the table with one entry or with 9 bytes.
BbmdReplies(kind) ==
    {PeerFrame(Result, p) : p \in {<<0, 0>>, <<1, 0>>, <<0>>}}
    \cup (IF kind \in ReadCommands
          THEN {PeerFrame(ExpectedReply(kind), p) : p \in {Fill(10), Fill(9)}}
          ELSE {})

\* The BBMD answers a command it has received.
BbmdAnswer ==
    /\ \E i \in 1..Len(wire) :
         /\ wire[i].op \in Commands
         /\ ~wire[i].answered
         /\ \E b \in BbmdReplies(wire[i].op) :
              /\ Datagram(BbmdAddr, b) \notin socket
              /\ socket' = socket \cup {Datagram(BbmdAddr, b)}
         /\ wire' = [wire EXCEPT ![i].answered = TRUE]
    /\ UNCHANGED <<clientVars, bbmd_command_lock, injected, now, pc, call, deadline, rx,
                   result, ncalls>>

\* Datagrams that reach the socket unasked: data from a peer, forwarded data
\* relayed by the BBMD (its payload exactly the origin, one byte more, too
\* short, or longer than a 1500-byte buffer), frames that do not decode, an
\* unknown function, and a Result from a peer that is not the BBMD.
InboundFrames ==
    {Datagram(PeerAddr, PeerFrame(OriginalUnicastNpdu, <<1, 2>>)),
     Datagram(BbmdAddr, PeerFrame(ForwardedNpdu, <<10, 0, 0, 9, 186, 193, 7>>)),
     Datagram(BbmdAddr, PeerFrame(ForwardedNpdu, <<10, 0, 0, 9, 186, 193>>)),
     Datagram(BbmdAddr, PeerFrame(ForwardedNpdu, <<10, 0, 0, 9, 186>>)),
     Datagram(BbmdAddr, PeerFrame(ForwardedNpdu,
                                  <<10, 0, 0, 9, 186, 193>> \o Fill(RX_BUFFER_LEN + 1))),
     Datagram(PeerAddr, <<BVLC_TYPE_BIP, OriginalUnicastNpdu, 0, 3>>),
     Datagram(PeerAddr, <<BVLC_TYPE_BIP, OriginalUnicastNpdu, 0, 9, 1>>),
     Datagram(PeerAddr, <<BVLC_TYPE_BIP + 1, OriginalUnicastNpdu, 0, 4>>),
     Datagram(PeerAddr, PeerFrame(OriginalBroadcastNpdu + 1, <<>>)),
     Datagram(PeerAddr, PeerFrame(Result, <<0, 0>>))}

PeerSendsOf(F) ==
    /\ injected < MaxInbound
    /\ \E d \in F :
         /\ d \notin socket
         /\ socket' = socket \cup {d}
    /\ injected' = injected + 1
    /\ UNCHANGED <<clientVars, bbmd_command_lock, wire, now, pc, call, deadline, rx,
                   result, ncalls>>
PeerSends == PeerSendsOf(InboundFrames)

\* The clock advances while a command waits for its reply and no task has a
\* step of its own to take.
BipTick ==
    /\ \E t \in Tasks : pc[t] = "b_wait"
    /\ \A t \in Tasks :
          \/ pc[t] \in Parked
          \/ pc[t] = "dl_recv"
          \/ pc[t] = "b_lock" /\ bbmd_command_lock # NoTask
          \/ pc[t] = "b_wait" /\ now < deadline[t]
    /\ now' = now + 1
    /\ UNCHANGED <<clientVars, bipVars, pc, call, deadline, rx, result, ncalls>>

\* --------------------------------------------- rustbac-core: primitives

\* A u32 is held as its two 16-bit halves (value = hi * 65536 + lo): the
\* model checker's integers are 32-bit signed, an i32 fits them and a u32
\* does not.
U32(hi, lo) == [hi |-> hi, lo |-> lo]
\* value <= bound, both u32.
U32Le(value, bound) ==
    value.hi < bound.hi \/ (value.hi = bound.hi /\ value.lo <= bound.lo)
\* ((value >> (i * 8)) & 0xFF) as u8
U32Byte(value, i) ==
    CASE i = 0 -> value.lo % 256
      [] i = 1 -> value.lo \div 256
      [] i = 2 -> value.hi % 256
      [] OTHER -> value.hi \div 256
\* (value << 8) | b as u32: the top byte is shifted out.
U32ShlOr(value, b) ==
    U32((value.hi % 256) * 256 + value.lo \div 256, (value.lo % 256) * 256 + b)

\* Writer::new over a buffer of cap bytes; err is the EncodeError met, if any.
Writer(cap) == [cap |-> cap, buf |-> <<>>, err |-> ""]
write_u8(w, value) ==
    IF w.err # "" THEN w
    ELSE IF w.cap - Len(w.buf) < 1 THEN [w EXCEPT !.err = "BufferTooSmall"]
    ELSE [w EXCEPT !.buf = Append(w.buf, value)]
write_all(w, data) ==
    IF w.err # "" THEN w
    ELSE IF w.cap - Len(w.buf) < Len(data) THEN [w EXCEPT !.err = "BufferTooSmall"]
    ELSE [w EXCEPT !.buf = w.buf \o data]
\* A run of write_u8(..)? calls: the first failure ends it.
RECURSIVE WriteEach(_, _)
WriteEach(w, bytes) ==
    IF bytes = <<>> \/ w.err # "" THEN w
    ELSE WriteEach(write_u8(w, Head(bytes)), Tail(bytes))

\* Reader::new over the written bytes; err is the DecodeError met, if any.
Reader(buf) == [buf |-> buf, pos |-> 0, err |-> ""]
remaining(r) == Max(Len(r.buf) - r.pos, 0)
read_u8(r) ==
    IF r.err # "" THEN [r |-> r, value |-> 0]
    ELSE IF r.pos >= Len(r.buf)
         THEN [r |-> [r EXCEPT !.err = "UnexpectedEof"], value |-> 0]
    ELSE [r |-> [r EXCEPT !.pos = r.pos + 1], value |-> r.buf[r.pos + 1]]
read_exact(r, len) ==
    IF r.err # "" THEN [r |-> r, value |-> <<>>]
    ELSE IF remaining(r) < len
         THEN [r |-> [r EXCEPT !.err = "UnexpectedEof"], value |-> <<>>]
    ELSE [r |-> [r EXCEPT !.pos = r.pos + len],
          value |-> SubSeq(r.buf, r.pos + 1, r.pos + len)]

\* The length encode_unsigned would choose if it looked at the low half of
\* the value only.
UnsignedLenOfLowHalf(value) ==
    IF value.lo <= 255 THEN 1 ELSE 2
encode_unsigned_len(value) ==
    IF U32Le(value, U32(0, 255)) THEN 1
    ELSE IF U32Le(value, U32(0, 65535)) THEN 2
    ELSE IF U32Le(value, U32(255, 65535)) THEN 3
    ELSE 4
encode_unsigned(w, value) ==
    LET len == encode_unsigned_len(value)
        w1 == WriteEach(w, [k \in 1..len |-> U32Byte(value, len - k)])
    IN [w |-> w1, len |-> IF w1.err = "" THEN len ELSE 0]

RECURSIVE ReadUnsigned(_, _, _)
ReadUnsigned(r, value, n) ==
    IF n = 0 \/ r.err # "" THEN [r |-> r, value |-> value]
    ELSE LET b == read_u8(r)
         IN ReadUnsigned(b.r, IF b.r.err = "" THEN U32ShlOr(value, b.value) ELSE value,
                         n - 1)
decode_unsigned(r, len) ==
    IF len = 0 \/ len > 4 THEN [r |-> [r EXCEPT !.err = "InvalidLength"], value |-> U32(0, 0)]
    ELSE ReadUnsigned(r, U32(0, 0), len)

\* i32::to_be_bytes and i32::from_be_bytes: two's complement, big-endian.
i32_to_be_bytes(value) ==
    <<(value \div 16777216) % 256, (value \div 65536) % 256,
      (value \div 256) % 256, value % 256>>
i32_from_be_bytes(out) ==
    (IF out[1] >= 128 THEN out[1] - 256 ELSE out[1]) * 16777216
        + out[2] * 65536 + out[3] * 256 + out[4]

encode_signed_len(value64) ==
    IF value64 >= -128 /\ value64 <= 127 THEN 1
    ELSE IF value64 >= -32768 /\ value64 <= 32767 THEN 2
    ELSE IF value64 >= -8388608 /\ value64 <= 8388607 THEN 3
    ELSE 4
encode_signed(w, value) ==
    LET len == encode_signed_len(value)
        bytes == i32_to_be_bytes(value)
        w1 == write_all(w, SubSeq(bytes, 4 - len + 1, 4))
    IN [w |-> w1, len |-> IF w1.err = "" THEN len ELSE 0]
decode_signed(r, len) ==
    IF len = 0 \/ len > 4 THEN [r |-> [r EXCEPT !.err = "InvalidLength"], value |-> 0]
    ELSE LET b == read_exact(r, len)
             bytes == b.value
             fill == IF bytes # <<>> /\ bytes[1] >= 128 THEN 255 ELSE 0
             out == [k \in 1..4 |-> IF k <= 4 - len THEN fill ELSE bytes[k - (4 - len)]]
         IN IF b.r.err # "" THEN [r |-> b.r, value |-> 0]
            ELSE [r |-> b.r, value |-> i32_from_be_bytes(out)]

\* The values the encoders are given: both sides of every length boundary.
U32Values == {U32(hi, lo) : hi \in {0, 1, 255, 256, 65535}, lo \in {0, 1, 255, 256, 65535}}
I32Values ==
    {0, 1, -1, 127, 128, 200, -128, -129, 32767, 32768, 40000, -32768, -32769,
     8388607, 8388608, -8388608, -8388609, 2147483647, -2147483647 - 1}
WriterCaps == 0..MaxWriter

NoCodec == [state |-> "idle", kind |-> "none", value |-> 0, w |-> Writer(0),
            len |-> 0, decoded |-> 0, err |-> ""]

\* let len = encode_unsigned(&mut w, v) over a buffer of cap bytes.
EncodeUnsigned ==
    /\ codec.state = "idle"
    /\ \E value \in U32Values, cap \in WriterCaps :
         LET e == encode_unsigned(Writer(cap), value)
         IN codec' = [NoCodec EXCEPT !.state = "encoded", !.kind = "unsigned",
                                     !.value = value, !.w = e.w, !.len = e.len]
    /\ UNCHANGED <<oldVars, throttle, arcs, acq>>

\* decode_unsigned(&mut Reader::new(w.as_written()), len)
DecodeUnsigned ==
    /\ codec.state = "encoded" /\ codec.kind = "unsigned" /\ codec.w.err = ""
    /\ LET d == decode_unsigned(Reader(codec.w.buf), codec.len)
       IN codec' = [codec EXCEPT !.state = "decoded", !.decoded = d.value,
                                 !.err = d.r.err]
    /\ UNCHANGED <<oldVars, throttle, arcs, acq>>

\* let len = encode_signed(&mut w, v) over a buffer of cap bytes.
EncodeSigned ==
    /\ codec.state = "idle"
    /\ \E value \in I32Values, cap \in WriterCaps :
         LET e == encode_signed(Writer(cap), value)
         IN codec' = [NoCodec EXCEPT !.state = "encoded", !.kind = "signed",
                                     !.value = value, !.w = e.w, !.len = e.len]
    /\ UNCHANGED <<oldVars, throttle, arcs, acq>>

\* decode_signed(&mut Reader::new(w.as_written()), len)
DecodeSigned ==
    /\ codec.state = "encoded" /\ codec.kind = "signed" /\ codec.w.err = ""
    /\ LET d == decode_signed(Reader(codec.w.buf), codec.len)
       IN codec' = [codec EXCEPT !.state = "decoded", !.decoded = d.value,
                                 !.err = d.r.err]
    /\ UNCHANGED <<oldVars, throttle, arcs, acq>>

\* The buffers go out of scope: the next value can be encoded.
CodecReset ==
    /\ codec.state = "decoded" \/ (codec.state = "encoded" /\ codec.w.err # "")
    /\ codec' = NoCodec
    /\ UNCHANGED <<oldVars, throttle, arcs, acq>>

\* --------------------------------------------- rustbac-core: APDU headers

ApduType == [ConfirmedRequest |-> 0, UnconfirmedRequest |-> 1, SimpleAck |-> 2,
             ComplexAck |-> 3, SegmentAck |-> 4, Error |-> 5, Reject |-> 6,
             Abort |-> 7]

\* Option<u8>
None == <<>>
Some(x) == <<x>>
unwrap_or(o, default) == IF o = None THEN default ELSE o[1]
\* A flag as the bit it sets, and a bit as the flag it stands for.
Bit(flag, weight) == IF flag THEN weight ELSE 0
IsSet(b, weight) == (b \div weight) % 2 = 1

\* The second octet of a Confirmed-Request with the two fields in each
\* other's place.
SegApduSwapped(max_segments, max_apdu) ==
    ((max_apdu * 16) % 256) + (max_segments % 16)
\* (self.max_segments << 4) | (self.max_apdu & 0x0f), in eight bits
seg_apdu(max_segments, max_apdu) ==
    ((max_segments * 16) % 256) + (max_apdu % 16)

ConfirmedRequestHeader_encode(h, w) ==
    LET b0 == ApduType.ConfirmedRequest * 16 + Bit(h.segmented, 8)
                 + Bit(h.more_follows, 4) + Bit(h.segmented_response_accepted, 2)
    IN WriteEach(w,
           <<b0, seg_apdu(h.max_segments, h.max_apdu), h.invoke_id>>
           \o (IF h.segmented
               THEN <<unwrap_or(h.sequence_number, 0),
                      unwrap_or(h.proposed_window_size, 1)>>
               ELSE <<>>)
           \o <<h.service_choice>>)

ConfirmedRequestHeader_decode(r) ==
    LET b0 == read_u8(r)
        segmented == IsSet(b0.value, 8)
        sa == read_u8(b0.r)
        inv == read_u8(sa.r)
        sq == IF segmented THEN read_u8(inv.r) ELSE [r |-> inv.r, value |-> 0]
        pw == IF segmented THEN read_u8(sq.r) ELSE [r |-> sq.r, value |-> 0]
        sc == read_u8(pw.r)
    IN IF b0.r.err # "" THEN [r |-> b0.r, value |-> None]
       ELSE IF b0.value \div 16 # ApduType.ConfirmedRequest
            THEN [r |-> [b0.r EXCEPT !.err = "InvalidValue"], value |-> None]
       ELSE IF sc.r.err # "" THEN [r |-> sc.r, value |-> None]
       ELSE [r |-> sc.r,
             value |-> [segmented |-> segmented,
                        more_follows |-> IsSet(b0.value, 4),
                        segmented_response_accepted |-> IsSet(b0.value, 2),
                        max_segments |-> sa.value \div 16,
                        max_apdu |-> sa.value % 16,
                        invoke_id |-> inv.value,
                        sequence_number |-> IF segmented THEN Some(sq.value) ELSE None,
                        proposed_window_size |-> IF segmented THEN Some(pw.value) ELSE None,
                        service_choice |-> sc.value]]

ComplexAckHeader_encode(h, w) ==
    LET b0 == ApduType.ComplexAck * 16 + Bit(h.segmented, 8) + Bit(h.more_follows, 4)
    IN WriteEach(w,
           <<b0, h.invoke_id>>
           \o (IF h.segmented
               THEN <<unwrap_or(h.sequence_number, 0),
                      unwrap_or(h.proposed_window_size, 1)>>
               ELSE <<>>)
           \o <<h.service_choice>>)

ComplexAckHeader_decode(r) ==
    LET b0 == read_u8(r)
        segmented == IsSet(b0.value, 8)
        inv == read_u8(b0.r)
        sq == IF segmented THEN read_u8(inv.r) ELSE [r |-> inv.r, value |-> 0]
        pw == IF segmented THEN read_u8(sq.r) ELSE [r |-> sq.r, value |-> 0]
        sc == read_u8(pw.r)
    IN IF b0.r.err # "" THEN [r |-> b0.r, value |-> None]
       ELSE IF b0.value \div 16 # ApduType.ComplexAck
            THEN [r |-> [b0.r EXCEPT !.err = "InvalidValue"], value |-> None]
       ELSE IF sc.r.err # "" THEN [r |-> sc.r, value |-> None]
       ELSE [r |-> sc.r,
             value |-> [segmented |-> segmented,
                        more_follows |-> IsSet(b0.value, 4),
                        invoke_id |-> inv.value,
                        sequence_number |-> IF segmented THEN Some(sq.value) ELSE None,
                        proposed_window_size |-> IF segmented THEN Some(pw.value) ELSE None,
                        service_choice |-> sc.value]]

SimpleAck_encode(h, w) ==
    WriteEach(w, <<ApduType.SimpleAck * 16, h.invoke_id, h.service_choice>>)

SimpleAck_decode(r) ==
    LET b0 == read_u8(r)
        inv == read_u8(b0.r)
        sc == read_u8(inv.r)
    IN IF b0.r.err # "" THEN [r |-> b0.r, value |-> None]
       ELSE IF b0.value \div 16 # ApduType.SimpleAck
            THEN [r |-> [b0.r EXCEPT !.err = "InvalidValue"], value |-> None]
       ELSE IF sc.r.err # "" THEN [r |-> sc.r, value |-> None]
       ELSE [r |-> sc.r,
             value |-> [invoke_id |-> inv.value, service_choice |-> sc.value]]

SegmentAck_encode(h, w) ==
    LET b0 == ApduType.SegmentAck * 16 + Bit(h.negative_ack, 2) + Bit(h.sent_by_server, 1)
    IN WriteEach(w, <<b0, h.invoke_id, h.sequence_number, h.actual_window_size>>)

SegmentAck_decode(r) ==
    LET b0 == read_u8(r)
        inv == read_u8(b0.r)
        sq == read_u8(inv.r)
        aw == read_u8(sq.r)
    IN IF b0.r.err # "" THEN [r |-> b0.r, value |-> None]
       ELSE IF b0.value \div 16 # ApduType.SegmentAck
            THEN [r |-> [b0.r EXCEPT !.err = "InvalidValue"], value |-> None]
       ELSE IF aw.r.err # "" THEN [r |-> aw.r, value |-> None]
       ELSE [r |-> aw.r,
             value |-> [negative_ack |-> IsSet(b0.value, 2),
                        sent_by_server |-> IsSet(b0.value, 1),
                        invoke_id |-> inv.value,
                        sequence_number |-> sq.value,
                        actual_window_size |-> aw.value]]

UnconfirmedRequestHeader_encode(h, w) ==
    WriteEach(w, <<ApduType.UnconfirmedRequest * 16, h.service_choice>>)

UnconfirmedRequestHeader_decode(r) ==
    LET b0 == read_u8(r)
        sc == read_u8(b0.r)
    IN IF b0.r.err # "" THEN [r |-> b0.r, value |-> None]
       ELSE IF b0.value \div 16 # ApduType.UnconfirmedRequest
            THEN [r |-> [b0.r EXCEPT !.err = "InvalidValue"], value |-> None]
       ELSE IF sc.r.err # "" THEN [r |-> sc.r, value |-> None]
       ELSE [r |-> sc.r, value |-> [service_choice |-> sc.value]]

\* The header types that have an encoder, and the values they are given.
HeaderKinds == {"ConfirmedRequestHeader", "ComplexAckHeader", "SimpleAck",
                "SegmentAck", "UnconfirmedRequestHeader"}
InvokeIds == {0, 255}
Options(S) == {None} \cup {Some(x) : x \in S}
Headers(kind) ==
    CASE kind = "ConfirmedRequestHeader" ->
           [segmented : BOOLEAN, more_follows : BOOLEAN,
            segmented_response_accepted : BOOLEAN,
            max_segments : {0, 7, 16}, max_apdu : {5, 16}, invoke_id : InvokeIds,
            sequence_number : Options({0, 3}),
            proposed_window_size : Options({1, 4}), service_choice : {12}]
      [] kind = "ComplexAckHeader" ->
           [segmented : BOOLEAN, more_follows : BOOLEAN, invoke_id : InvokeIds,
            sequence_number : Options({0, 3}),
            proposed_window_size : Options({1, 4}), service_choice : {12}]
      [] kind = "SimpleAck" ->
           [invoke_id : InvokeIds, service_choice : {15, 255}]
      [] kind = "SegmentAck" ->
           [negative_ack : BOOLEAN, sent_by_server : BOOLEAN, invoke_id : InvokeIds,
            sequence_number : {0, 3}, actual_window_size : {1, 255}]
      [] OTHER -> [service_choice : {0, 8, 255}]

EncodeOf(kind, h, w) ==
    CASE kind = "ConfirmedRequestHeader" -> ConfirmedRequestHeader_encode(h, w)
      [] kind = "ComplexAckHeader" -> ComplexAckHeader_encode(h, w)
      [] kind = "SimpleAck" -> SimpleAck_encode(h, w)
      [] kind = "SegmentAck" -> SegmentAck_encode(h, w)
      [] OTHER -> UnconfirmedRequestHeader_encode(h, w)
DecodeOf(kind, r) ==
    CASE kind = "ConfirmedRequestHeader" -> ConfirmedRequestHeader_decode(r)
      [] kind = "ComplexAckHeader" -> ComplexAckHeader_decode(r)
      [] kind = "SimpleAck" -> SimpleAck_decode(r)
      [] kind = "SegmentAck" -> SegmentAck_decode(r)
      [] OTHER -> UnconfirmedRequestHeader_decode(r)

\* h.encode(&mut w) over a buffer of cap bytes.
HeaderEncode ==
    /\ codec.state = "idle"
    /\ \E kind \in HeaderKinds, cap \in WriterCaps :
         \E h \in Headers(kind) :
            LET w == EncodeOf(kind, h, Writer(cap))
            IN codec' = [NoCodec EXCEPT !.state = "encoded", !.kind = kind,
                                        !.value = h, !.w = w, !.len = Len(w.buf)]
    /\ UNCHANGED <<oldVars, throttle, arcs, acq>>

\* T::decode(&mut Reader::new(w.as_written()))
HeaderDecode ==
    /\ codec.state = "encoded" /\ codec.kind \in HeaderKinds /\ codec.w.err = ""
    /\ LET d == DecodeOf(codec.kind, Reader(codec.w.buf))
       IN codec' = [codec EXCEPT !.state = "decoded", !.decoded = d.value,
                                 !.err = d.r.err]
    /\ UNCHANGED <<oldVars, throttle, arcs, acq>>

\* --------------------------------- Read-Property-Multiple: the ack's decoding

\* Tag::Application / Context / Opening / Closing; num is the AppTag of an
\* application tag and the tag number of the others.
Tag(kind, num, len) == [kind |-> kind, num |-> num, len |-> len]
NoTag == Tag("none", 0, 0)

\* `let x = v; F(x)`: v is evaluated once and F applied to its value.
Bind(v, F(_)) == CHOOSE y \in {F(x) : x \in {v}} : TRUE

Fail(r, e) == [r EXCEPT !.err = e]

\* decode_len: the length a tag octet's low three bits stand for.
decode_len(r, len_code) ==
    IF len_code <= 4 THEN [r |-> r, value |-> len_code]
    ELSE IF len_code = 5
    THEN Bind(read_u8(r), LAMBDA v :
            IF v.r.err # "" \/ v.value <= 253 THEN v
            ELSE IF v.value = 254
            THEN Bind(read_exact(v.r, 2), LAMBDA b :
                    [r |-> b.r,
                     value |-> IF b.r.err = "" THEN from_be_bytes(b.value) ELSE 0])
            ELSE Bind(read_exact(v.r, 4), LAMBDA b :
                    [r |-> b.r,
                     value |-> IF b.r.err = ""
                               THEN from_be_bytes(SubSeq(b.value, 1, 2)) * 65536
                                       + from_be_bytes(SubSeq(b.value, 3, 4))
                               ELSE 0]))
    ELSE [r |-> Fail(r, "InvalidLength"), value |-> 0]

\* Tag::decode, from the first octet read on.
TagAfterNumber(first, ext) ==
    LET class_context == IsSet(first, 8)
        tag_num == ext.value
        len_val == first % 8
    IN IF ext.r.err # "" THEN [r |-> ext.r, tag |-> NoTag]
       ELSE IF class_context /\ len_val = 6
       THEN [r |-> ext.r, tag |-> Tag("Opening", tag_num, 0)]
       ELSE IF class_context /\ len_val = 7
       THEN [r |-> ext.r, tag |-> Tag("Closing", tag_num, 0)]
       ELSE Bind(decode_len(ext.r, len_val), LAMBDA len :
               IF len.r.err # "" THEN [r |-> len.r, tag |-> NoTag]
               ELSE IF class_context
               THEN [r |-> len.r, tag |-> Tag("Context", tag_num, len.value)]
               ELSE IF tag_num > 12
               THEN [r |-> Fail(len.r, "InvalidTag"), tag |-> NoTag]
               ELSE [r |-> len.r, tag |-> Tag("Application", tag_num, len.value)])
Tag_decode(r) ==
    Bind(read_u8(r), LAMBDA f :
       IF f.r.err # "" THEN [r |-> f.r, tag |-> NoTag]
       ELSE Bind(IF f.value \div 16 = 15 THEN read_u8(f.r)
                 ELSE [r |-> f.r, value |-> f.value \div 16],
                 LAMBDA ext : TagAfterNumber(f.value, ext)))

\* decode_application_data_value_from_tag for the tags the acks below carry:
\* Null, Boolean, Unsigned and Enumerated, and a tag that is no value's.  The
\* other application tags and the constructed values are not modelled.
decode_application_data_value_from_tag(r, tag) ==
    IF tag.kind = "Application" /\ tag.num = 0
    THEN [r |-> r, value |-> [type |-> "Null", v |-> U32(0, 0)]]
    ELSE IF tag.kind = "Application" /\ tag.num = 1
    THEN [r |-> r, value |-> [type |-> "Boolean", v |-> U32(0, IF tag.len # 0 THEN 1 ELSE 0)]]
    ELSE IF tag.kind = "Application" /\ tag.num \in {2, 9}
    THEN Bind(decode_unsigned(r, tag.len), LAMBDA d :
            [r |-> d.r,
             value |-> [type |-> IF tag.num = 2 THEN "Unsigned" ELSE "Enumerated",
                        v |-> d.value]])
    ELSE IF tag.kind \in {"Context", "Closing"}
    THEN [r |-> Fail(r, "Unsupported"), value |-> [type |-> "none", v |-> U32(0, 0)]]
    ELSE [r |-> Fail(r, "NotModelled"), value |-> [type |-> "none", v |-> U32(0, 0)]]

\* let class_tag = Tag::decode(r)?; let code_tag = Tag::decode(r)?;
\* let close_tag = Tag::decode(r)?;
AccessErrorTags(r) ==
    Bind(Tag_decode(r), LAMBDA class_tag :
    Bind(Tag_decode(class_tag.r), LAMBDA code_tag :
    Bind(Tag_decode(code_tag.r), LAMBDA close_tag :
       [r |-> close_tag.r, class_tag |-> class_tag.tag, code_tag |-> code_tag.tag,
        close_tag |-> close_tag.tag])))

\* The arm of decode_after_header taken on an opening tag 5.
AccessErrorBlock(r) ==
    Bind(AccessErrorTags(r), LAMBDA t :
       IF t.r.err # "" THEN t.r
       ELSE IF /\ t.class_tag.kind = "Context" /\ t.class_tag.num = 0
               /\ t.code_tag.kind = "Context" /\ t.code_tag.num = 1
               /\ t.close_tag.kind = "Closing" /\ t.close_tag.num = 5
       THEN Fail(t.r, "Unsupported")
       ELSE Fail(t.r, "InvalidTag"))

\* One read result from its opening tag 4 on: the value or the error block,
\* and the closing tag 4.  `element` is the result without its value.
ReadResult(read_result_open, element) ==
    IF read_result_open.r.err # "" THEN [r |-> read_result_open.r, value |-> element]
    ELSE IF read_result_open.tag # Tag("Opening", 4, 0)
    THEN [r |-> Fail(read_result_open.r, "InvalidTag"), value |-> element]
    ELSE Bind(Tag_decode(read_result_open.r), LAMBDA value_or_error :
       IF value_or_error.r.err # "" THEN [r |-> value_or_error.r, value |-> element]
       ELSE IF value_or_error.tag = Tag("Opening", 5, 0)
       THEN [r |-> AccessErrorBlock(value_or_error.r), value |-> element]
       ELSE Bind(decode_application_data_value_from_tag(value_or_error.r,
                                                        value_or_error.tag),
                 LAMBDA value :
          IF value.r.err # "" THEN [r |-> value.r, value |-> element]
          ELSE Bind(Tag_decode(value.r), LAMBDA closing :
             IF closing.r.err # "" THEN [r |-> closing.r, value |-> element]
             ELSE IF closing.tag # Tag("Closing", 4, 0)
             THEN [r |-> Fail(closing.r, "InvalidTag"), value |-> element]
             ELSE [r |-> closing.r,
                   value |-> [element EXCEPT !.value = value.value]])))

\* One element of an object's results from its property identifier on.
ReadElement(tag) ==
    LET none == [property_id |-> U32(0, 0), array_index |-> None,
                 value |-> [type |-> "none", v |-> U32(0, 0)]]
    IN Bind(decode_unsigned(tag.r, tag.tag.len), LAMBDA property_id :
       IF property_id.r.err # "" THEN [r |-> property_id.r, value |-> none]
       ELSE Bind(Tag_decode(property_id.r), LAMBDA next :
          IF next.r.err # "" THEN [r |-> next.r, value |-> none]
          ELSE IF next.tag.kind = "Context" /\ next.tag.num = 3
          THEN Bind(decode_unsigned(next.r, next.tag.len), LAMBDA idx :
                  IF idx.r.err # "" THEN [r |-> idx.r, value |-> none]
                  ELSE ReadResult(Tag_decode(idx.r),
                                  [none EXCEPT !.property_id = property_id.value,
                                               !.array_index = Some(idx.value)]))
          ELSE ReadResult(next, [none EXCEPT !.property_id = property_id.value])))

\* One turn of the `loop` over an object's results: the elements read so far
\* and the reader after the closing tag 1.
RECURSIVE DecodeElements(_, _)
DecodeElements(r, elements) ==
    Bind(Tag_decode(r), LAMBDA tag :
       IF tag.r.err # "" THEN [r |-> tag.r, value |-> elements]
       ELSE IF tag.tag = Tag("Closing", 1, 0) THEN [r |-> tag.r, value |-> elements]
       ELSE IF ~(tag.tag.kind = "Context" /\ tag.tag.num = 2)
       THEN [r |-> Fail(tag.r, "InvalidTag"), value |-> elements]
       ELSE Bind(ReadElement(tag), LAMBDA element :
               IF element.r.err # "" THEN [r |-> element.r, value |-> elements]
               ELSE DecodeElements(element.r, Append(elements, element.value))))

\* One object of the ack from its object identifier on.
ReadObject(tag) ==
    Bind(decode_unsigned(tag.r, tag.tag.len), LAMBDA object_id :
       IF object_id.r.err # "" THEN [r |-> object_id.r, value |-> <<>>]
       ELSE Bind(Tag_decode(object_id.r), LAMBDA open :
          IF open.r.err # "" THEN [r |-> open.r, value |-> <<>>]
          ELSE IF open.tag # Tag("Opening", 1, 0)
          THEN [r |-> Fail(open.r, "InvalidTag"), value |-> <<>>]
          ELSE Bind(DecodeElements(open.r, <<>>), LAMBDA elements :
                  [r |-> elements.r,
                   value |-> [object_id |-> object_id.value,
                              results |-> elements.value]])))

\* ReadPropertyMultipleAck::decode_after_header
RECURSIVE decode_after_header(_, _)
decode_after_header(r, all_results) ==
    IF r.err # "" \/ remaining(r) = 0 THEN [r |-> r, value |-> all_results]
    ELSE Bind(Tag_decode(r), LAMBDA tag :
       IF tag.r.err # "" THEN [r |-> tag.r, value |-> all_results]
       ELSE IF ~(tag.tag.kind = "Context" /\ tag.tag.num = 0)
       THEN [r |-> Fail(tag.r, "InvalidTag"), value |-> all_results]
       ELSE Bind(ReadObject(tag), LAMBDA object :
               IF object.r.err # "" THEN [r |-> object.r, value |-> all_results]
               ELSE decode_after_header(object.r, Append(all_results, object.value))))

\* into_client_value, for the values modelled: each DataValue variant becomes
\* the ClientDataValue variant of the same name.
into_client_value(value) == [type |-> value.type, v |-> value.v]

\* The (property, value) pairs of the results for the object asked about.
RECURSIVE Collect(_, _)
Collect(results, object_id) ==
    IF results = <<>> THEN <<>>
    ELSE (IF Head(results).object_id # object_id THEN <<>>
          ELSE [i \in 1..Len(Head(results).results) |->
                  <<Head(results).results[i].property_id,
                    into_client_value(Head(results).results[i].value)>>])
         \o Collect(Tail(results), object_id)

\* read_property_multiple from the payload the exchange returned to the value
\* it returns: Err(ClientError::Decode(e)) or Ok(out).
read_property_multiple(payload, object_id) ==
    Bind(decode_after_header(Reader(payload), <<>>), LAMBDA parsed :
       IF parsed.r.err # ""
       THEN [kind |-> "Decode", err |-> parsed.r.err, out |-> <<>>]
       ELSE [kind |-> "Ok", err |-> "", out |-> Collect(parsed.value, object_id)])

\* The object the reads are about, and the complex-ack payloads a device
\* answers with: one object with one property, whose read result is a value or
\* a property-access-error block.
RpmObject == U32(0, 1)
ErrorBlocks ==
    {<<94, 9, 2, 25, 32, 95>>,      \* [5] { [0] 2, [1] 32 }
     <<94, 8, 24, 95>>,             \* [5] { [0] and [1] of length 0 }
     <<94, 145, 2, 145, 32, 95>>,   \* [5] { ENUMERATED 2, ENUMERATED 32 }
     <<94, 9, 2, 25, 32, 79>>}      \* tags 0 and 1, closed by a tag 4
ContextErrorBlocks == {<<94, 9, 2, 25, 32, 95>>, <<94, 8, 24, 95>>}
ReadResults ==
    {<<0>>, <<17>>, <<33, 7>>, <<145, 1>>, <<94, 9>>} \cup ErrorBlocks
RpmAcks ==
    {oid \o <<30, 41, 85>> \o idx \o <<78>> \o x \o <<79>> \o close :
        oid \in {<<12, 0, 0, 0, 1>>, <<12, 0, 0, 0, 2>>, <<28, 0, 0, 0, 1>>},
        idx \in {<<>>, <<57, 0>>},
        x \in ReadResults,
        close \in {<<31>>, <<>>}}

\* await_complex_ack_payload_or_error has returned Ok(payload).
RpmPayload ==
    /\ codec.state = "idle"
    /\ \E payload \in RpmAcks :
         codec' = [NoCodec EXCEPT !.state = "encoded", !.kind = "rpm",
                                  !.value = payload,
                                  !.w = [Writer(Len(payload)) EXCEPT !.buf = payload],
                                  !.len = Len(payload)]
    /\ UNCHANGED <<oldVars, throttle, arcs, acq>>

\* The rest of read_property_multiple: the payload is decoded and the call
\* returns.
RpmReturn ==
    /\ codec.state = "encoded" /\ codec.kind = "rpm"
    /\ LET res == read_property_multiple(codec.w.buf, RpmObject)
       IN codec' = [codec EXCEPT !.state = "decoded", !.decoded = res, !.err = res.err]
    /\ UNCHANGED <<oldVars, throttle, arcs, acq>>

\* ------------------------------------------------- DeviceThrottle

\* What the throttle's calls leave alone.
throttleFrame == <<idVars, request_io_lock, id, rx, seg, rea, result, sent, accepted,
                   seen, found, listener, bipVars, codec>>

DeviceThrottleConfig(max_concurrent, min_interval) ==
    [max_concurrent |-> max_concurrent, min_interval |-> min_interval]

\* DeviceThrottle::new(NewMaxConcurrent, NewMinInterval). last_request_lock is
\* the holder of the last_request mutex, which acquire keeps while it sleeps.
NewThrottle ==
    [semaphores |-> [a \in Addrs |-> None],
     last_request |-> [a \in Addrs |-> None],
     overrides |-> [a \in Addrs |-> None],
     default_max_concurrent |-> Max(NewMaxConcurrent, 1),
     default_min_interval |-> NewMinInterval,
     last_request_lock |-> NoTask]

\* Semaphore::new(permits), with the address it was made for and the permits
\* handed to callers and not yet dropped.
Semaphore(address, permits) == [address |-> address, permits |-> permits, held |-> 0]
NoAcq == [config |-> DeviceThrottleConfig(0, 0), semaphore |-> 0]

ThrottleCalls ==
    [kind : {"acquire"}, address : Addrs, max_concurrent : {0}, min_interval : {0}]
    \cup [kind : {"set_device_limit"}, address : Addrs,
          max_concurrent : 0..MaxLimit, min_interval : {0, NewMinInterval}]

\* A task calls acquire or set_device_limit.
ThrottleStart(t, c) ==
    /\ pc[t] = "idle"
    /\ ncalls < MaxThrottleCalls
    /\ call' = [call EXCEPT ![t] = c]
    /\ pc' = [pc EXCEPT ![t] = IF c.kind = "acquire" THEN "th_config" ELSE "sl_overrides"]
    /\ ncalls' = ncalls + 1
    /\ UNCHANGED <<throttleFrame, throttle, arcs, acq, now, deadline>>

\* set_device_limit: the override is stored under the overrides mutex.
SetOverride(t) ==
    /\ pc[t] = "sl_overrides"
    /\ throttle' = [throttle EXCEPT !.overrides[call[t].address] =
                      Some(DeviceThrottleConfig(Max(call[t].max_concurrent, 1),
                                                call[t].min_interval))]
    /\ pc' = [pc EXCEPT ![t] = "sl_semaphores"]
    /\ UNCHANGED <<throttleFrame, arcs, acq, now, deadline, call, ncalls>>

\* set_device_limit: a new semaphore replaces the address's entry under the
\* semaphores mutex; the one it replaces lives on in its clones and permits.
SetSemaphore(t) ==
    /\ pc[t] = "sl_semaphores"
    /\ arcs' = Append(arcs, Semaphore(call[t].address, Max(call[t].max_concurrent, 1)))
    /\ throttle' = [throttle EXCEPT !.semaphores[call[t].address] = Some(Len(arcs) + 1)]
    /\ pc' = [pc EXCEPT ![t] = "idle"]
    /\ UNCHANGED <<throttleFrame, acq, now, deadline, call, ncalls>>

\* acquire: the configuration is read under the overrides mutex.
AcquireConfig(t) ==
    /\ pc[t] = "th_config"
    /\ acq' = [acq EXCEPT ![t].config =
                 IF throttle.overrides[call[t].address] # None
                 THEN throttle.overrides[call[t].address][1]
                 ELSE DeviceThrottleConfig(throttle.default_max_concurrent,
                                           throttle.default_min_interval)]
    /\ pc' = [pc EXCEPT ![t] = "th_semaphore"]
    /\ UNCHANGED <<throttleFrame, throttle, arcs, now, deadline, call, ncalls>>

\* acquire: the address's semaphore is cloned, or made with the configuration
\* just read, under the semaphores mutex.
AcquireSemaphore(t) ==
    /\ pc[t] = "th_semaphore"
    /\ LET a == call[t].address
       IN IF throttle.semaphores[a] # None
          THEN /\ acq' = [acq EXCEPT ![t].semaphore = throttle.semaphores[a][1]]
               /\ UNCHANGED <<throttle, arcs>>
          ELSE /\ arcs' = Append(arcs, Semaphore(a, acq[t].config.max_concurrent))
               /\ throttle' = [throttle EXCEPT !.semaphores[a] = Some(Len(arcs) + 1)]
               /\ acq' = [acq EXCEPT ![t].semaphore = Len(arcs) + 1]
    /\ pc' = [pc EXCEPT ![t] = "th_permit"]
    /\ UNCHANGED <<throttleFrame, now, deadline, call, ncalls>>

\* The permit leaves acquire for its caller.
PermitReturned(t) == [arcs EXCEPT ![acq[t].semaphore].held = @ + 1]

\* acquire: semaphore.acquire_owned().await takes a permit of the semaphore
\* the task holds a clone of; with no minimum interval the permit is returned.
AcquirePermit(t) ==
    /\ pc[t] = "th_permit"
    /\ arcs[acq[t].semaphore].permits > 0
    /\ LET taken == [arcs EXCEPT ![acq[t].semaphore].permits = @ - 1]
       IN IF acq[t].config.min_interval = 0
          THEN /\ arcs' = [taken EXCEPT ![acq[t].semaphore].held = @ + 1]
               /\ pc' = [pc EXCEPT ![t] = "idle"]
               /\ acq' = [acq EXCEPT ![t] = NoAcq]
          ELSE /\ arcs' = taken
               /\ pc' = [pc EXCEPT ![t] = "th_interval"]
               /\ acq' = acq
    /\ UNCHANGED <<throttleFrame, throttle, now, deadline, call, ncalls>>

\* acquire: under the last_request mutex, either the interval since the last
\* request start has passed and the permit is returned, or the task sleeps for
\* the rest of it with the mutex held.
AcquireInterval(t) ==
    /\ pc[t] = "th_interval"
    /\ throttle.last_request_lock = NoTask
    /\ LET a == call[t].address
           last == throttle.last_request[a]
       IN IF last # None /\ now - last[1] < acq[t].config.min_interval
          THEN /\ throttle' = [throttle EXCEPT !.last_request_lock = t]
               /\ deadline' = [deadline EXCEPT ![t] =
                                 now + (acq[t].config.min_interval - (now - last[1]))]
               /\ pc' = [pc EXCEPT ![t] = "th_sleep"]
               /\ UNCHANGED <<arcs, acq>>
          ELSE /\ throttle' = [throttle EXCEPT !.last_request[a] = Some(now)]
               /\ arcs' = PermitReturned(t)
               /\ pc' = [pc EXCEPT ![t] = "idle"]
               /\ acq' = [acq EXCEPT ![t] = NoAcq]
               /\ UNCHANGED deadline
    /\ UNCHANGED <<throttleFrame, now, call, ncalls>>

\* acquire: the sleep is over; the request start is recorded, the mutex is
\* released and the permit is returned.
AcquireWake(t) ==
    /\ pc[t] = "th_sleep"
    /\ now >= deadline[t]
    /\ throttle' = [throttle EXCEPT !.last_request[call[t].address] = Some(now),
                                    !.last_request_lock = NoTask]
    /\ arcs' = PermitReturned(t)
    /\ pc' = [pc EXCEPT ![t] = "idle"]
    /\ acq' = [acq EXCEPT ![t] = NoAcq]
    /\ UNCHANGED <<throttleFrame, now, deadline, call, ncalls>>

\* A caller drops a permit: it goes back to the semaphore it came from.
DropPermit ==
    /\ \E s \in 1..Len(arcs) :
         /\ arcs[s].held > 0
         /\ arcs' = [arcs EXCEPT ![s].held = @ - 1, ![s].permits = @ + 1]
    /\ UNCHANGED <<throttleFrame, throttle, acq, now, pc, deadline, call, ncalls>>

\* The clock advances while a task sleeps out its interval.
ThrottleTick ==
    /\ \E t \in Tasks : pc[t] = "th_sleep" /\ now < deadline[t]
    /\ now' = now + 1
    /\ UNCHANGED <<throttleFrame, throttle, arcs, acq, pc, deadline, call, ncalls>>

\* ------------------------------------------------------------------- init

Init ==
    /\ invoke_id = 1
    /\ invoke_lock = NoTask
    /\ request_io_lock = NoTask
    /\ now = 0
    /\ pc = [t \in Tasks |-> "idle"]
    /\ call = [t \in Tasks |-> NoCall]
    /\ id = [t \in Tasks |-> 0]
    /\ deadline = [t \in Tasks |-> 0]
    /\ rx = [t \in Tasks |-> NoRx]
    /\ seg = [t \in Tasks |-> NoSeg]
    /\ rea = [t \in Tasks |-> NoRea]
    /\ result = [t \in Tasks |-> NoResult]
    /\ sent = [t \in Tasks |-> <<>>]
    /\ accepted = [t \in Tasks |-> <<>>]
    /\ seen = [t \in Tasks |-> {}]
    /\ found = [t \in Tasks |-> <<>>]
    /\ ncalls = 0
    /\ allocCount = 0
    /\ issued = 0
    /\ listener = [reads |-> 0, last |-> "none", acked |-> FALSE, segmented |-> FALSE]
    /\ bbmd_command_lock = NoTask
    /\ socket = {}
    /\ wire = <<>>
    /\ injected = 0
    /\ codec = NoCodec
    /\ throttle = NewThrottle
    /\ arcs = <<>>
    /\ acq = [t \in Tasks |-> NoAcq]

\* Invoke-id allocation on its own: concurrent callers whose requests fail to
\* encode, so that each call is an allocation and nothing else.
NextInvoke ==
    \E t \in Tasks :
        \/ CallOversized(t)
        \/ IdLock(t)
        \/ IdTake(t)
        \/ IdStore(t)
        \/ EncodeFail(t)
        \/ Finish(t)

SpecInvoke == Init /\ [][NextInvoke]_vars

\* One caller running confirmed exchanges against every frame sequence.
Next ==
    \/ \E c \in Requests \cup {OversizedCall} : Call(MainTask, c)
    \/ IdLock(MainTask)
    \/ IdTake(MainTask)
    \/ IdStore(MainTask)
    \/ LockIo(MainTask)
    \/ SendRequest(MainTask)
    \/ SendSegment(MainTask)
    \/ EncodeFail(MainTask)
    \/ RecvAck(MainTask)
    \/ RecvResp(MainTask)
    \/ RecvReasm(MainTask)
    \/ HandleAck(MainTask)
    \/ AckTimeout(MainTask)
    \/ HandleResp(MainTask)
    \/ RespTimeout(MainTask)
    \/ HandleReasm(MainTask)
    \/ ReasmTimeout(MainTask)
    \/ Tick
    \/ Finish(MainTask)

Spec == Init /\ [][Next]_vars

\* What recv hands to an exchange in SpecConc.
ConcRx(a, i, s) ==
    {FSimpleAck(a, i, s), FComplexAck(a, i, s, FALSE, FALSE, 0, 0, <<"a">>),
     FSegmentAck(a, i, FALSE, TRUE, 1, 2), FError(a, i, s),
     FUnconfirmedRequest(a, SERVICE_UNCONFIRMED_COV_NOTIFICATION),
     RecvErr("InvalidFrame")}

ConcCall(t, c) ==
    /\ ncalls < MaxOps
    /\ Start(t, c)
ConcRecvAck(t) ==
    RecvAckOf(t, ConcRx(call[t].address, id[t], call[t].service_choice))
ConcRecvResp(t) ==
    RecvRespOf(t, ConcRx(call[t].address, id[t], call[t].service_choice))

\* Two callers on one client running confirmed calls concurrently.
NextConc ==
    \/ \E t \in Tasks :
          \/ \E c \in {r \in Requests : r.len # 2942} : ConcCall(t, c)
          \/ IdLock(t)
          \/ IdTake(t)
          \/ IdStore(t)
          \/ LockIo(t)
          \/ SendRequest(t)
          \/ SendSegment(t)
          \/ ConcRecvAck(t)
          \/ HandleAck(t)
          \/ AckTimeout(t)
          \/ ConcRecvResp(t)
          \/ HandleResp(t)
          \/ RespTimeout(t)
          \/ Finish(t)
    \/ Tick

SpecConc == Init /\ [][NextConc]_vars

\* One caller running confirmed calls while a second caller polls for
\* notifications or runs discovery on the same client, and the listener's
\* driver reads from the same data link.
PollTask == "t2"

NextLink ==
    \/ \E c \in {r \in Requests : r.len # 2942} : ConcCall(MainTask, c)
    \/ IdLock(MainTask)
    \/ IdTake(MainTask)
    \/ IdStore(MainTask)
    \/ LockIo(MainTask)
    \/ SendRequest(MainTask)
    \/ SendSegment(MainTask)
    \/ ConcRecvAck(MainTask)
    \/ HandleAck(MainTask)
    \/ AckTimeout(MainTask)
    \/ ConcRecvResp(MainTask)
    \/ HandleResp(MainTask)
    \/ RespTimeout(MainTask)
    \/ \E k \in {"recv_cov", "recv_event"} : StartNotify(PollTask, k)
    \/ \E k \in {"who_is", "who_has"} : StartDiscovery(PollTask, k)
    \/ NotifyLock(PollTask)
    \/ NotifyRecv(PollTask)
    \/ NotifyHandle(PollTask)
    \/ NotifyTimeout(PollTask)
    \/ DiscoveryLock(PollTask)
    \/ DiscoveryRecv(PollTask)
    \/ DiscoveryHandle(PollTask)
    \/ DiscoveryTimeout(PollTask)
    \/ \E t \in Tasks : Finish(t)
    \/ ListenerRead
    \/ Tick

SpecLink == Init /\ [][NextLink]_vars

\* Callers polling one client for COV and event notifications.
NextNotify ==
    \/ \E t \in Tasks :
          \/ \E k \in {"recv_cov", "recv_event"} : StartNotify(t, k)
          \/ NotifyLock(t)
          \/ NotifyRecv(t)
          \/ NotifyHandle(t)
          \/ NotifyTimeout(t)
          \/ Finish(t)
    \/ Tick

SpecNotify == Init /\ [][NextNotify]_vars

\* One caller running who_is and who_has while peers answer with I-Am and
\* I-Have frames: answers of one source that differ in their other fields, and
\* answers of one source for different objects.
DiscoveryAnswers ==
    {[FUnconfirmedRequest(src, svc) EXCEPT !.payload = pl] :
        src \in Addrs, svc \in {SERVICE_I_AM, SERVICE_I_HAVE},
        pl \in {<<"a">>, <<"a", "b">>, <<"b">>}}

DiscoveryRecvAnswers(t) == DiscoveryRecvOf(t, UnsolicitedRx \cup DiscoveryAnswers)

NextDiscovery ==
    \/ \E k \in {"who_is", "who_has"} : StartDiscovery(MainTask, k)
    \/ DiscoveryLock(MainTask)
    \/ DiscoveryRecvAnswers(MainTask)
    \/ DiscoveryHandle(MainTask)
    \/ DiscoveryTimeout(MainTask)
    \/ Finish(MainTask)
    \/ Tick

SpecDiscovery == Init /\ [][NextDiscovery]_vars

\* Two tasks on clones of one transport: the first registers (waiting or
\* not) or reads the BDT, the second writes the BDT or calls DataLink::recv,
\* while the BBMD answers and a peer's datagram arrives.
BipCommands ==
    {BipCall(k, BbmdAddr, 0) : k \in ReadCommands \cup {"delete_foreign_device_table_entry"}}
    \cup {BipCall(k, BbmdAddr, 60) :
             k \in {"register_foreign_device", "register_foreign_device_no_wait"}}
    \cup {BipCall("write_broadcast_distribution_table", BbmdAddr, n) : n \in {1, 6554}}
FirstCommands ==
    {c \in BipCommands :
        c.kind \in {"register_foreign_device", "register_foreign_device_no_wait",
                    "read_broadcast_distribution_table"}}
SecondCalls ==
    {c \in BipCommands : c.kind = "write_broadcast_distribution_table" /\ c.len < 2}
    \cup {BipCall("dl_recv", PeerAddr, RX_BUFFER_LEN)}
PeerResults ==
    {d \in InboundFrames : d.src = PeerAddr /\ BvlcHeaderDecode(d.bytes).err = ""
                              /\ BvlcHeaderDecode(d.bytes).function = Result}

NextBip ==
    \/ \E c \in FirstCommands : BipStart(MainTask, c)
    \/ \E c \in SecondCalls : BipStart(PollTask, c)
    \/ \E t \in Tasks :
          \/ BipLock(t)
          \/ BipSend(t)
          \/ BipRecvReply(t)
          \/ BipHandleReply(t)
          \/ BipTimeout(t)
          \/ BipFinish(t)
    \/ DlRecv(PollTask)
    \/ BbmdAnswer
    \/ PeerSendsOf(PeerResults)
    \/ BipTick

SpecBip == Init /\ [][NextBip]_vars

\* Both tasks call DataLink::recv, with a buffer of 1500 or of 1600 bytes, while
\* datagrams of every kind arrive.
NextRecv ==
    \/ \E t \in Tasks :
          \/ \E n \in {RX_BUFFER_LEN, MAX_BIP_FRAME_LEN} :
                BipStart(t, BipCall("dl_recv", PeerAddr, n))
          \/ DlRecv(t)
          \/ BipFinish(t)
    \/ PeerSends

SpecRecv == Init /\ [][NextRecv]_vars

\* One task sends data frames, runs every administrative command, among them
\* a table too long for a frame, and receives, while datagrams arrive whose
\* header does not decode; the BBMD stays silent.
DataLinkCalls ==
    {BipCall("dl_send", a, n) :
        a \in {PeerAddr, BroadcastAddr},
        n \in {2, MAX_BIP_FRAME_LEN - BVLC_HEADER_LEN,
               MAX_BIP_FRAME_LEN - BVLC_HEADER_LEN + 1}}
    \cup {BipCall("dl_recv", PeerAddr, RX_BUFFER_LEN)}
UndecodableFrames == {d \in InboundFrames : BvlcHeaderDecode(d.bytes).err # ""}

NextFrames ==
    \/ \E c \in BipCommands \cup DataLinkCalls : BipStart(MainTask, c)
    \/ BipLock(MainTask)
    \/ BipSend(MainTask)
    \/ BipRecvReply(MainTask)
    \/ BipHandleReply(MainTask)
    \/ BipTimeout(MainTask)
    \/ DlSend(MainTask)
    \/ DlRecv(MainTask)
    \/ BipFinish(MainTask)
    \/ PeerSendsOf(UndecodableFrames)
    \/ BipTick

SpecFrames == Init /\ [][NextFrames]_vars

\* One task runs the commands that wait for a reply while the other calls
\* DataLink::recv on the same socket, the BBMD answers, and frames that carry
\* an NPDU arrive from the BBMD and from a peer.
NpduFrames ==
    {Datagram(src, PeerFrame(f, <<1, 2>>)) :
        src \in {BbmdAddr, PeerAddr},
        f \in {OriginalUnicastNpdu, OriginalBroadcastNpdu, DistributeBroadcastToNetwork}}
    \cup {Datagram(src, PeerFrame(ForwardedNpdu, <<10, 0, 0, 9, 186, 193, 7>>)) :
            src \in {BbmdAddr, PeerAddr}}
SharedCommands ==
    {c \in BipCommands :
        c.kind \in {"register_foreign_device", "read_broadcast_distribution_table"}}

NextShared ==
    \/ \E c \in SharedCommands : BipStart(MainTask, c)
    \/ BipStart(PollTask, BipCall("dl_recv", PeerAddr, RX_BUFFER_LEN))
    \/ BipLock(MainTask)
    \/ BipSend(MainTask)
    \/ BipRecvReply(MainTask)
    \/ BipHandleReply(MainTask)
    \/ BipTimeout(MainTask)
    \/ DlRecv(PollTask)
    \/ \E t \in Tasks : BipFinish(t)
    \/ BbmdAnswer
    \/ PeerSendsOf(NpduFrames)
    \/ BipTick
SpecShared == Init /\ [][NextShared]_vars

\* The encoders and decoders of rustbac-core on their own: a value is encoded
\* into a buffer of some size and, where that succeeded, decoded again.
NextCodec ==
    \/ EncodeUnsigned
    \/ DecodeUnsigned
    \/ EncodeSigned
    \/ DecodeSigned
    \/ HeaderEncode
    \/ HeaderDecode
    \/ CodecReset
SpecCodec == Init /\ [][NextCodec]_vars

\* The confirmed notifications a device sends: COV and Event, not segmented,
\* with invoke-id 7.
NotificationFrames ==
    {FConfirmedRequest(src, 7, svc, FALSE) :
        src \in Addrs,
        svc \in {SERVICE_CONFIRMED_COV_NOTIFICATION,
                 SERVICE_CONFIRMED_EVENT_NOTIFICATION}}
\* What the link hands to an exchange with target a: a notification, the
\* segment-ack for the batch sent, or the Simple-Ack that ends the exchange.
AnswerRx(t) ==
    NotificationFrames
    \cup {FSegmentAck(call[t].address, id[t], FALSE, TRUE,
                      (seg[t].batch_end - 1) % (U8_MAX + 1), 2),
          FSimpleAck(call[t].address, id[t], call[t].service_choice)}
AnswerRecvAck(t) == RecvAckOf(t, AnswerRx(t))
AnswerRecvResp(t) == RecvRespOf(t, AnswerRx(t))
AnswerCall(t) ==
    /\ ncalls < MaxCalls
    /\ \E c \in {r \in SimpleRequests : r.len # 2942} : Start(t, c)
AnswerStartNotify(t, kind) == ncalls < MaxCalls /\ StartNotify(t, kind)
AnswerStartDiscovery(t, kind) == ncalls < MaxCalls /\ StartDiscovery(t, kind)

\* A caller runs one call, a confirmed exchange, a notification poll or a
\* discovery, while a device sends confirmed notifications.  The task runs
\* whenever it can, and time passes.
NextAnswer ==
    \/ AnswerCall(MainTask)
    \/ \E k \in {"recv_cov", "recv_event"} : AnswerStartNotify(MainTask, k)
    \/ AnswerStartDiscovery(MainTask, "who_is")
    \/ IdLock(MainTask)
    \/ IdTake(MainTask)
    \/ IdStore(MainTask)
    \/ LockIo(MainTask)
    \/ SendRequest(MainTask)
    \/ SendSegment(MainTask)
    \/ AnswerRecvAck(MainTask)
    \/ HandleAck(MainTask)
    \/ AckTimeout(MainTask)
    \/ AnswerRecvResp(MainTask)
    \/ HandleResp(MainTask)
    \/ RespTimeout(MainTask)
    \/ NotifyLock(MainTask)
    \/ NotifyRecv(MainTask)
    \/ NotifyHandle(MainTask)
    \/ NotifyTimeout(MainTask)
    \/ DiscoveryLock(MainTask)
    \/ DiscoveryRecv(MainTask)
    \/ DiscoveryHandle(MainTask)
    \/ DiscoveryTimeout(MainTask)
    \/ Tick
    \/ Finish(MainTask)
SpecAnswer == Init /\ [][NextAnswer]_vars /\ WF_vars(NextAnswer) /\ SF_vars(Tick)

\* The invoke-id of the k-th allocation of a client: the counter starts at 1
\* and passes from 255 to 1.
IdOfExchange(k) == ((k - 1) % U8_MAX) + 1
\* What the device answers to the k-th request: its data is "a" while the
\* counter runs through 1..255 for the first time, "b" the second time.
ReplyData(k) == IF ((k - 1) \div U8_MAX) % 2 = 0 THEN <<"a">> ELSE <<"b">>
ReplyTo(a, k, s) ==
    FComplexAck(a, IdOfExchange(k), s, FALSE, FALSE, 0, 0, ReplyData(k))
\* The caller runs read_property when the counter stands at 1 or 2, and in
\* between calls whose request cannot be encoded: they take an invoke-id and
\* send nothing.
ExchangeIds == {1, 2}
\* The replies that can reach the n-th call, an exchange: its own, and late
\* ones to the exchanges before it.
RepliesBy(n) == {k \in 1..n : IdOfExchange(k) \in ExchangeIds}
StaleCall(t) ==
    /\ ncalls < MaxAllocs
    /\ invoke_id \in ExchangeIds
    /\ \E c \in ComplexRequests : Start(t, c)
StaleCallOversized(t) ==
    /\ invoke_id \notin ExchangeIds
    /\ CallOversized(t)
StaleRecvResp(t) ==
    RecvRespOf(t, {ReplyTo(call[t].address, k, call[t].service_choice) :
                      k \in RepliesBy(allocCount)})

\* One caller makes call after call, past the wrap of the invoke-id counter,
\* while late replies to its earlier requests arrive.
NextStale ==
    \/ StaleCall(MainTask)
    \/ StaleCallOversized(MainTask)
    \/ IdLock(MainTask)
    \/ IdTake(MainTask)
    \/ IdStore(MainTask)
    \/ EncodeFail(MainTask)
    \/ LockIo(MainTask)
    \/ SendRequest(MainTask)
    \/ StaleRecvResp(MainTask)
    \/ HandleResp(MainTask)
    \/ RespTimeout(MainTask)
    \/ Tick
    \/ Finish(MainTask)
SpecStale == Init /\ [][NextStale]_vars

\* read_property_multiple from the end of its exchange on: a device's ack
\* payload is decoded and the call returns.
NextRpm ==
    \/ RpmPayload
    \/ RpmReturn
    \/ CodecReset
SpecRpm == Init /\ [][NextRpm]_vars

\* The device throttle on its own: two tasks call acquire and
\* set_device_limit, and the permits handed out are dropped at any time.
NextThrottle ==
    \/ \E t \in Tasks : \E c \in ThrottleCalls : ThrottleStart(t, c)
    \/ \E t \in Tasks : SetOverride(t)
    \/ \E t \in Tasks : SetSemaphore(t)
    \/ \E t \in Tasks : AcquireConfig(t)
    \/ \E t \in Tasks : AcquireSemaphore(t)
    \/ \E t \in Tasks : AcquirePermit(t)
    \/ \E t \in Tasks : AcquireInterval(t)
    \/ \E t \in Tasks : AcquireWake(t)
    \/ DropPermit
    \/ ThrottleTick
SpecThrottle == Init /\ [][NextThrottle]_vars

\* Frames handed to send_confirmed_request whose bodies need 5, 256 and 257
\* segments, and a body too long for the largest encode buffer.  Max-apdu code
\* 0 (50 octets, 45 bytes a segment) is a header value the function decodes; the
\* service encoders of this crate write code 5 (1476 octets, 1471 a segment).
SegmentRequests ==
    {[kind |-> "simple", address |-> "A", service_choice |-> SERVICE_WRITE_PROPERTY,
      len |-> c[1], max_apdu |-> c[2]] :
        c \in {<<7000, 5>>, <<11520, 0>>, <<11521, 0>>, <<376577, 5>>}}

\* The peer acknowledges every batch at once and answers at once; it announces
\* a window of 3, and for the short request one of 1 as well.
SegRecvAck(t) ==
    RecvAckOf(t, {FSegmentAck(call[t].address, id[t], FALSE, TRUE,
                              (seg[t].batch_end - 1) % (U8_MAX + 1), win) :
                     win \in IF seg[t].segment_count <= 5 THEN {1, 3} ELSE {3}})
SegRecvResp(t) ==
    RecvRespOf(t, {FSimpleAck(call[t].address, id[t], call[t].service_choice)})

NextSegment ==
    \/ \E c \in SegmentRequests : Call(MainTask, c)
    \/ IdLock(MainTask)
    \/ IdTake(MainTask)
    \/ IdStore(MainTask)
    \/ EncodeFail(MainTask)
    \/ LockIo(MainTask)
    \/ SendRequest(MainTask)
    \/ SendSegment(MainTask)
    \/ SegRecvAck(MainTask)
    \/ HandleAck(MainTask)
    \/ SegRecvResp(MainTask)
    \/ HandleResp(MainTask)
    \/ Finish(MainTask)

SpecSegment == Init /\ [][NextSegment]_vars

\* A request of five segments whose peer answers each batch with a positive or
\* a negative segment-ack for the batch's last sequence number, announcing a
\* window of 1 or 2, or lets the wait run out.
RetryRequests == {c \in SegmentRequests : segment_count(c) = 5}
RetryRecvAck(t) ==
    RecvAckOf(t, {FSegmentAck(call[t].address, id[t], neg, TRUE,
                              (seg[t].batch_end - 1) % (U8_MAX + 1), win) :
                     neg \in BOOLEAN, win \in {1, 2}})

NextRetry ==
    \/ \E c \in RetryRequests : Call(MainTask, c)
    \/ IdLock(MainTask)
    \/ IdTake(MainTask)
    \/ IdStore(MainTask)
    \/ LockIo(MainTask)
    \/ SendRequest(MainTask)
    \/ SendSegment(MainTask)
    \/ RetryRecvAck(MainTask)
    \/ HandleAck(MainTask)
    \/ AckTimeout(MainTask)
    \/ SegRecvResp(MainTask)
    \/ HandleResp(MainTask)
    \/ RespTimeout(MainTask)
    \/ Tick
    \/ Finish(MainTask)
SpecRetry == Init /\ [][NextRetry]_vars

\* A peer that answers a read with a long run of in-sequence segments, each as
\* large as the receive buffer allows.
BulkRecvResp(t) ==
    RecvRespOf(t, {FComplexAck(call[t].address, id[t], call[t].service_choice,
                               TRUE, TRUE, 0, 1, <<"full">>)})
BulkRecvReasm(t) ==
    RecvReasmOf(t, {FComplexAck(call[t].address, id[t], call[t].service_choice,
                                TRUE, mf, WrapAdd1(rea[t].last_seq), 1, <<"full">>) :
                       mf \in BOOLEAN},
                MaxBulkSent)

NextBulk ==
    \/ \E c \in ComplexRequests : Call(MainTask, c)
    \/ IdLock(MainTask)
    \/ IdTake(MainTask)
    \/ IdStore(MainTask)
    \/ LockIo(MainTask)
    \/ SendRequest(MainTask)
    \/ BulkRecvResp(MainTask)
    \/ HandleResp(MainTask)
    \/ RespTimeout(MainTask)
    \/ BulkRecvReasm(MainTask)
    \/ HandleReasm(MainTask)
    \/ ReasmTimeout(MainTask)
    \/ Tick
    \/ Finish(MainTask)

SpecBulk == Init /\ [][NextBulk]_vars

\* ----------------------------------------------------------------- claims

\* C3: the issued invoke-id is never 0 and the ids are issued in the order
\* 1, 2, ..., 255, 1, 2, ...: the n-th allocation returns ((n - 1) mod 255) + 1,
\* also when the allocations come from concurrently running calls.
C3_InvokeIdSequence ==
    /\ allocCount > 0 => (issued = ((allocCount - 1) % U8_MAX) + 1 /\ issued # 0)
    /\ \A t \in Tasks : pc[t] \in {"id_store", "have_id"} => id[t] # 0

\* The 256th allocation has been made and returned 1 again.
C3_Witness == allocCount = U8_MAX + 1 /\ issued = 1

\* ----------------------------------------------------------------- claims

\* Positions of a call that holds the request I/O lock.
ExchangePcs == {"send", "send_batch", "ack_wait", "ack_got", "resp_wait", "resp_got",
                "reasm_wait", "reasm_got"}
\* Positions at which a receive has just completed, and the wait each returns to.
GotPcs == {"ack_got", "resp_got", "reasm_got"}
WaitOf(p) ==
    CASE p = "ack_got" -> "ack_wait"
      [] p = "resp_got" -> "resp_wait"
      [] p = "reasm_got" -> "reasm_wait"
      [] OTHER -> p

Returned(t) == pc[t] = "done"

\* C4 as stated: every confirmed exchange resolves in one of Ok, Timeout,
\* RemoteServiceError, RemoteReject, RemoteAbort, ResponseTooLarge,
\* SegmentedRequestTooLarge or DataLink(_), and nothing else.
StatedResults == {"Ok", "Timeout", "RemoteServiceError", "RemoteReject", "RemoteAbort",
                  "ResponseTooLarge", "SegmentedRequestTooLarge", "DataLink"}
C4_StatedResultsOnly ==
    \A t \in Tasks : Returned(t) => result[t].kind \in StatedResults

\* C4 amended: every confirmed exchange resolves in exactly one of the stated
\* results or SegmentNegativeAck, UnsupportedResponse or Decode(_); no other
\* result (in particular no Encode error) is returned to the caller.
C4_Results ==
    \A t \in Tasks :
        Returned(t) =>
            result[t].kind \in StatedResults
                \cup {"SegmentNegativeAck", "UnsupportedResponse", "Decode"}
C4_Witness ==
    \E t \in Tasks :
        /\ Returned(t)
        /\ result[t].kind = "SegmentNegativeAck"
        /\ Len(sent[t]) = 2 * (segmented_request_retries + 1)

\* C5: a confirmed exchange returns success only on a Simple-Ack (simple-ack
\* service) or Complex-Ack (complex-ack service) received from the target whose
\* invoke-id and service-choice both equal the request's; a frame with another
\* invoke-id or another service-choice never resolves the exchange.
ResolvingAck(t) ==
    /\ rx[t].err = ""
    /\ rx[t].wf = "ok"
    /\ rx[t].src = call[t].address
    /\ rx[t].pdu = (IF call[t].kind = "simple" THEN "SimpleAck" ELSE "ComplexAck")
    /\ rx[t].invoke_id = id[t]
    /\ rx[t].service_choice = call[t].service_choice
Mismatched(t) ==
    /\ rx[t].err = ""
    /\ rx[t].wf = "ok"
    /\ \/ /\ rx[t].pdu \in {"SimpleAck", "ComplexAck", "Error"}
          /\ rx[t].invoke_id # id[t] \/ rx[t].service_choice # call[t].service_choice
       \/ /\ rx[t].pdu \in {"Reject", "Abort", "SegmentAck"}
          /\ rx[t].invoke_id # id[t]
C5_SuccessNeedsMatchingAck ==
    [][\A t \in Tasks :
          /\ (pc[t] # "done" /\ pc'[t] = "done" /\ result'[t].kind = "Ok")
                => ResolvingAck(t)
          /\ (pc[t] \in GotPcs /\ Mismatched(t) /\ pc'[t] # pc[t])
                => pc'[t] = WaitOf(pc[t])]_vars
C5_Witness ==
    \E t \in Tasks :
        /\ Returned(t)
        /\ result[t].kind = "Ok"
        /\ call[t].kind = "simple"
        /\ Len(sent[t]) = 3

\* C6: an InvalidFrame error returned by recv in the response wait, the
\* segment-ack wait or reassembly is skipped (the call goes back to the same
\* wait with nothing changed) and the caller never gets DataLink(InvalidFrame).
C6_InvalidFrameSkipped ==
    /\ [](\A t \in Tasks : result[t] # ResDataLink("InvalidFrame"))
    /\ [][\A t \in Tasks :
            (pc[t] \in GotPcs /\ rx[t].err = "InvalidFrame" /\ pc'[t] # pc[t])
                => /\ pc'[t] = WaitOf(pc[t])
                   /\ result'[t] = result[t]
                   /\ sent'[t] = sent[t]
                   /\ seg'[t] = seg[t]
                   /\ rea'[t] = rea[t]
                   /\ deadline'[t] = deadline[t]]_vars
C6_Witness ==
    \E t \in Tasks :
        /\ Returned(t)
        /\ result[t].kind = "Ok"
        /\ "invalid_frame" \in seen[t]
        /\ Len(accepted[t]) = 2

\* C7: a call's single deadline (the instant its exchange began plus
\* response_timeout) bounds segment sending, segment-ack waits, response waiting
\* and reassembly: the clock never passes the deadline while the exchange runs,
\* and an exchange that ends once the deadline is reached ends in Timeout (a
\* retransmission attempted at that instant may instead fail in the data link).
C7_Deadline ==
    /\ [](\A t \in Tasks : pc[t] \in ExchangePcs => now <= deadline[t])
    /\ [][\A t \in Tasks :
            (pc[t] \in ExchangePcs /\ now >= deadline[t] /\ pc'[t] = "done")
                => \/ result'[t].kind = "Timeout"
                   \/ pc[t] = "send_batch" /\ result'[t].kind = "DataLink"]_vars
C7_Witness ==
    \E t \in Tasks :
        /\ Returned(t)
        /\ result[t].kind = "Timeout"
        /\ now = response_timeout
        /\ Len(sent[t]) = 6

\* C8: a matching Error (invoke-id and service-choice), Reject or Abort
\* (invoke-id) from the target, in the response wait, a segment-ack wait or
\* reassembly, ends the exchange at once with RemoteServiceError, RemoteReject
\* or RemoteAbort, and nothing more is transmitted, retries left or not.
MatchingRemote(t) ==
    /\ rx[t].err = ""
    /\ rx[t].wf = "ok"
    /\ rx[t].src = call[t].address
    /\ rx[t].invoke_id = id[t]
    /\ \/ rx[t].pdu = "Error" /\ rx[t].service_choice = call[t].service_choice
       \/ rx[t].pdu \in {"Reject", "Abort"}
RemoteKind(pdu) ==
    CASE pdu = "Error" -> "RemoteServiceError"
      [] pdu = "Reject" -> "RemoteReject"
      [] pdu = "Abort" -> "RemoteAbort"
      [] OTHER -> "none"
C8_RemoteErrorsTerminate ==
    [][\A t \in Tasks :
          (pc[t] \in GotPcs /\ MatchingRemote(t) /\ pc'[t] # pc[t])
              => /\ pc'[t] = "done"
                 /\ result'[t].kind = RemoteKind(rx[t].pdu)
                 /\ sent'[t] = sent[t]]_vars
C8_Witness ==
    \E t \in Tasks :
        /\ Returned(t)
        /\ result[t].kind = "RemoteReject"
        /\ call[t].len = 4000
        /\ Len(sent[t]) = 2

\* C9: in the response wait, the segment-ack wait and reassembly a frame whose
\* source is not the request's target changes neither the outcome, the
\* reassembled payload, the window size nor the retry count, and causes no
\* transmission: the call goes back to the same wait.
C9_OtherPeersIgnored ==
    [][\A t \in Tasks :
          (pc[t] \in GotPcs /\ rx[t].err = "" /\ rx[t].src # call[t].address
                /\ pc'[t] # pc[t])
              => /\ pc'[t] = WaitOf(pc[t])
                 /\ result'[t] = result[t]
                 /\ rea'[t] = rea[t]
                 /\ seg'[t] = seg[t]
                 /\ sent'[t] = sent[t]
                 /\ accepted'[t] = accepted[t]]_vars
C9_Witness ==
    \E t \in Tasks :
        /\ Returned(t)
        /\ result[t].kind = "Ok"
        /\ "other_peer" \in seen[t]
        /\ Len(sent[t]) = 4

\* C10: the payload a complex-ack call delivers is the concatenation, in
\* sequence-number order, of the first segment's payload and of every segment
\* that followed in sequence up to the one with more-follows = false, each
\* taken exactly once.
RECURSIVE Concat(_)
Concat(segs) ==
    IF segs = <<>> THEN <<>> ELSE Head(segs).payload \o Concat(Tail(segs))
C10_Reassembly ==
    \A t \in Tasks :
        (Returned(t) /\ result[t].kind = "Ok" /\ call[t].kind = "complex")
            => /\ accepted[t] # <<>>
               /\ result[t].payload = Concat(accepted[t])
               /\ ~accepted[t][Len(accepted[t])].more_follows
               /\ \A i \in 1..(Len(accepted[t]) - 1) :
                     /\ accepted[t][i].more_follows
                     /\ accepted[t][i + 1].sequence_number =
                            (accepted[t][i].sequence_number + 1) % (U8_MAX + 1)
C10_Witness ==
    \E t \in Tasks :
        /\ Returned(t)
        /\ result[t].kind = "Ok"
        /\ Len(accepted[t]) = 3
        /\ accepted[t][1].sequence_number = U8_MAX
        /\ result[t].payload = <<"a", "b", "a">>

\* A confirmed exchange between its first send and its return.
InConfirmedExchange(t) == pc[t] \in ExchangePcs /\ sent[t] # <<>>

\* C1: confirmed exchanges on one client are totally ordered: at most one caller
\* is inside an exchange, and from an exchange's first send until it returns no
\* other caller's confirmed call sends or receives a frame.
C1_ExchangesExclusive ==
    /\ [](\A t, u \in Tasks :
            t # u => ~(pc[t] \in ExchangePcs /\ pc[u] \in ExchangePcs))
    /\ [][\A t, u \in Tasks :
            (t # u /\ InConfirmedExchange(t))
                => /\ Len(sent'[u]) <= Len(sent[u])
                   /\ rx'[u] = rx[u]]_vars
C1_Witness ==
    \E t, u \in Tasks :
        /\ t # u
        /\ pc[t] = "ack_got"
        /\ Len(sent[t]) = 2
        /\ pc[u] = "have_id"
        /\ id[u] = Bump(id[t])

\* A notification poll or a discovery collection that is reading frames.
PollReading(u) == pc[u] \in {"n_wait", "n_got", "d_wait", "d_got"}

\* C2: while a confirmed exchange is between its first send and its return, no
\* notification reception (recv_cov_notification, recv_event_notification, the
\* listener's receive loop on the same data link) and no who-is / who-has
\* collection reads a frame from the link, and while one of those is reading no
\* confirmed exchange sends or receives.
C2_NoInterleaving ==
    /\ [](\A t, u \in Tasks : ~(InConfirmedExchange(t) /\ PollReading(u)))
    /\ [][(\E t \in Tasks : InConfirmedExchange(t))
              => listener'.reads = listener.reads]_vars

\* A well-formed segmented Complex-Ack of this exchange from the target has
\* been read by the reassembly loop.
ReasmSegment(t) ==
    /\ pc[t] = "reasm_got"
    /\ rx[t].err = ""
    /\ rx[t].wf = "ok"
    /\ rx[t].pdu = "ComplexAck"
    /\ rx[t].src = call[t].address
    /\ rx[t].invoke_id = id[t]
    /\ rx[t].service_choice = call[t].service_choice
    /\ rx[t].segmented
LastAccepted(t) == accepted[t][Len(accepted[t])]
LastSent(s) == s[Len(s)]

\* C11: during reassembly a matching segment from the target whose sequence
\* number equals the last accepted one triggers exactly one more segment-ack,
\* for that sequence number, and leaves the accumulated payload, the last
\* accepted sequence and the more-follows state unchanged (when handing the ack
\* to the data link fails, nothing is sent and the call returns DataLink).
C11_DuplicateReacked ==
    [][\A t \in Tasks :
          (/\ ReasmSegment(t)
           /\ rx[t].sequence_number = LastAccepted(t).sequence_number
           /\ pc'[t] # pc[t])
              => \/ /\ pc'[t] = "reasm_wait"
                    /\ Len(sent'[t]) = Len(sent[t]) + 1
                    /\ SubSeq(sent'[t], 1, Len(sent[t])) = sent[t]
                    /\ LastSent(sent'[t]).pdu = "SegmentAck"
                    /\ LastSent(sent'[t]).dst = call[t].address
                    /\ LastSent(sent'[t]).sequence_number =
                          LastAccepted(t).sequence_number
                    /\ rea'[t].payload = rea[t].payload
                    /\ rea'[t].last_seq = rea[t].last_seq
                    /\ rea'[t].more_follows = rea[t].more_follows
                    /\ accepted'[t] = accepted[t]
                 \/ /\ pc'[t] = "done"
                    /\ result'[t].kind = "DataLink"
                    /\ sent'[t] = sent[t]]_vars
C11_Witness ==
    \E t \in Tasks :
        /\ pc[t] = "reasm_wait"
        /\ Len(accepted[t]) = 1
        /\ Len(sent[t]) = 3
        /\ sent[t][2].pdu = "SegmentAck"
        /\ sent[t][3].pdu = "SegmentAck"
        /\ sent[t][3].sequence_number = sent[t][2].sequence_number
        /\ rea[t].payload = accepted[t][1].payload

\* C12: during reassembly a matching segment whose sequence number is neither
\* the last accepted one nor its successor modulo 256 is dropped: no
\* segment-ack is sent for it, and the accumulated payload, the last accepted
\* sequence and everything else of the exchange stay as they were.
C12_OutOfSequenceDropped ==
    [][\A t \in Tasks :
          (/\ ReasmSegment(t)
           /\ rx[t].sequence_number # LastAccepted(t).sequence_number
           /\ rx[t].sequence_number #
                 (LastAccepted(t).sequence_number + 1) % (U8_MAX + 1)
           /\ pc'[t] # pc[t])
              => /\ pc'[t] = "reasm_wait"
                 /\ sent'[t] = sent[t]
                 /\ rea'[t] = rea[t]
                 /\ accepted'[t] = accepted[t]
                 /\ result'[t] = result[t]]_vars
C12_Witness ==
    \E t \in Tasks :
        /\ Returned(t)
        /\ result[t].kind = "Ok"
        /\ "out_of_sequence" \in seen[t]
        /\ Len(accepted[t]) = 2
        /\ Len(sent[t]) = 3

\* The step hands one more segment-ack to the data link.
SendsSegmentAck(t) ==
    /\ pc[t] \in {"resp_got", "reasm_got"}
    /\ Len(sent'[t]) = Len(sent[t]) + 1
    /\ LastSent(sent'[t]).pdu = "SegmentAck"
AckShape(t) ==
    /\ ~LastSent(sent'[t]).negative_ack
    /\ ~LastSent(sent'[t]).sent_by_server
    /\ LastSent(sent'[t]).dst = call[t].address
    /\ LastSent(sent'[t]).invoke_id = id[t]
    /\ LastSent(sent'[t]).sequence_number = rx[t].sequence_number
    /\ LastSent(sent'[t]).sequence_number = LastAccepted(t)'.sequence_number

\* C13 as stated: every segment-ack sent during reassembly is positive, has
\* sent-by-server = false, carries the exchange's invoke-id and the sequence
\* number of the segment just accepted (of the last accepted one for a
\* duplicate), and carries the window size most recently announced by the
\* peer, that is the one in the segment that has just been read.
C13_AckCarriesLatestWindow ==
    [][\A t \in Tasks :
          SendsSegmentAck(t)
              => /\ AckShape(t)
                 /\ LastSent(sent'[t]).window = rx[t].window]_vars

\* C13 amended: every segment-ack sent during reassembly is positive, has
\* sent-by-server = false, carries the exchange's invoke-id and the sequence
\* number of the segment just accepted (of the last accepted one for a
\* duplicate), and carries the window size announced in the last accepted
\* segment; the window a duplicate announces is not taken over.
C13_AckCarriesAcceptedWindow ==
    [][\A t \in Tasks :
          SendsSegmentAck(t)
              => /\ AckShape(t)
                 /\ LastSent(sent'[t]).window = LastAccepted(t)'.window]_vars
C13_Witness ==
    \E t \in Tasks :
        /\ pc[t] = "reasm_wait"
        /\ Len(accepted[t]) = 2
        /\ Len(sent[t]) = 4
        /\ sent[t][2].window = 1
        /\ sent[t][3].window = 2
        /\ sent[t][4].window = 2
        /\ sent[t][4].sequence_number = sent[t][3].sequence_number
        /\ ~sent[t][4].negative_ack

\* C14: during complex-ack reassembly the accumulated payload never exceeds
\* 1 MiB (1,048,576 bytes), nor does a delivered payload; a next segment that
\* would make it larger is not appended, and the exchange then fails with
\* ResponseTooLarge carrying limit = 1 MiB, as does every ResponseTooLarge.
C14_ReassemblyLimit ==
    /\ [](\A t \in Tasks :
            /\ PayloadLen(rea[t].payload) <= MAX_COMPLEX_ACK_REASSEMBLY_BYTES
            /\ PayloadLen(result[t].payload) <= MAX_COMPLEX_ACK_REASSEMBLY_BYTES
            /\ result[t].kind = "ResponseTooLarge"
                  => result[t].num = 1048576)
    /\ [][\A t \in Tasks :
            (/\ ReasmSegment(t)
             /\ rx[t].sequence_number =
                   (LastAccepted(t).sequence_number + 1) % (U8_MAX + 1)
             /\ PayloadLen(rea[t].payload) + PayloadLen(rx[t].payload) > 1048576
             /\ pc'[t] # pc[t])
                => /\ pc'[t] = "done"
                   /\ result'[t].kind = "ResponseTooLarge"
                   /\ result'[t].num = 1048576
                   /\ sent'[t] = sent[t]]_vars
C14_Witness ==
    \E t \in Tasks :
        /\ Returned(t)
        /\ result[t].kind = "ResponseTooLarge"
        /\ result[t].num = MAX_COMPLEX_ACK_REASSEMBLY_BYTES
        /\ Len(sent[t]) = 703

\* The segments a request body needs, and the frame that carries segment k of
\* the n it is cut into.
SegmentsNeeded(c) == (c.len + segment_data_len(c) - 1) \div segment_data_len(c)
IsSegmentOf(f, t, k, n) ==
    /\ f.pdu = "ConfirmedRequest"
    /\ f.dst = call[t].address
    /\ f.invoke_id = id[t]
    /\ f.service_choice = call[t].service_choice
    /\ f.segmented
    /\ f.sequence_number = k
    /\ f.more_follows = (k < n - 1)
    /\ f.start = k * segment_data_len(call[t])
    /\ f.len = IF k < n - 1 THEN segment_data_len(call[t])
               ELSE call[t].len - (n - 1) * segment_data_len(call[t])

\* C15: a confirmed request is never transmitted in more than 256 segments: a
\* request whose body needs more than 256 segments returns
\* SegmentedRequestTooLarge with no frame transmitted, and a request needing
\* at most 256 segments gets that error only when its encoding does not fit the
\* largest encode buffer, never for its segment count.
C15_SegmentCountCap ==
    \A t \in Tasks :
        /\ seg[t].segment_count <= 256
        /\ \A i \in 1..Len(sent[t]) :
              sent[t][i].segmented => SegmentsNeeded(call[t]) <= 256
        /\ (call[t].kind = "simple" /\ SegmentsNeeded(call[t]) > 256)
              => /\ sent[t] = <<>>
                 /\ Returned(t) => result[t].kind = "SegmentedRequestTooLarge"
        /\ (Returned(t) /\ result[t].kind = "SegmentedRequestTooLarge")
              => (SegmentsNeeded(call[t]) > 256 \/ ~Fits(call[t]))
C15_Witness ==
    \E t \in Tasks :
        /\ Returned(t)
        /\ result[t].kind = "SegmentedRequestTooLarge"
        /\ Fits(call[t])
        /\ SegmentsNeeded(call[t]) = 257
        /\ sent[t] = <<>>

\* C16: when a confirmed request is cut into n segments and every batch is
\* acknowledged without retry, the frames transmitted are exactly n segmented
\* Confirmed-Request frames with the request's invoke-id and service-choice,
\* sequence numbers 0, 1, ..., n-1 in transmission order, more-follows on every
\* segment but the last, and consecutive slices of the service body that
\* together make up the whole body.
C16_SegmentFrames ==
    \A t \in Tasks :
        (call[t].kind = "simple" /\ SegmentsNeeded(call[t]) > 1)
            => /\ \A i \in 1..Len(sent[t]) :
                     IsSegmentOf(sent[t][i], t, i - 1, SegmentsNeeded(call[t]))
               /\ (pc[t] \in {"resp_wait", "resp_got"}
                      \/ (Returned(t) /\ result[t].kind = "Ok"))
                     => Len(sent[t]) = SegmentsNeeded(call[t])
C16_Witness ==
    \E t \in Tasks :
        /\ Returned(t)
        /\ result[t].kind = "Ok"
        /\ Len(sent[t]) = 256
        /\ sent[t][256].sequence_number = U8_MAX
        /\ ~sent[t][256].more_follows
        /\ sent[t][256].start + sent[t][256].len = call[t].len

\* Positions of a call inside the batch loop of a segmented transmission.
SegmentPcs == {"send_batch", "ack_wait", "ack_got"}
\* A segment-ack of this exchange, sent by the server, has been read in the
\* segment-ack wait: a negative one, or a positive one for the batch's last
\* sequence number.
PeerSegmentAck(t) ==
    /\ pc[t] = "ack_got"
    /\ rx[t].err = ""
    /\ rx[t].wf = "ok"
    /\ rx[t].src = call[t].address
    /\ rx[t].pdu = "SegmentAck"
    /\ rx[t].invoke_id = id[t]
    /\ rx[t].sent_by_server
NegativeAck(t) == PeerSegmentAck(t) /\ rx[t].negative_ack
PositiveAck(t) ==
    /\ PeerSegmentAck(t)
    /\ ~rx[t].negative_ack
    /\ rx[t].sequence_number = (seg[t].batch_end - 1) % (U8_MAX + 1)
\* The step in which the segment-ack wait's timer fires.
AckWaitTimesOut(t) == pc[t] = "ack_wait" /\ pc'[t] \notin {"ack_wait", "ack_got"}

\* C17: throughout a segmented transmission, whatever positive acks, negative
\* acks and ack timeouts occur, the window size w satisfies 1 <= w <= the
\* configured window ceiling, and right after a positive segment-ack w is at
\* most the window size that ack announces (an announced 0 counting as 1).
C17_WindowBounds ==
    /\ [](\A t \in Tasks :
            pc[t] \in SegmentPcs
                => /\ 1 <= seg[t].window_size
                   /\ seg[t].window_size <= Max(segmented_request_window_size, 1))
    /\ [][\A t \in Tasks :
            (PositiveAck(t) /\ pc'[t] # pc[t])
                => /\ pc'[t] = "send_batch"
                   /\ seg'[t].batch_start = seg[t].batch_end
                   /\ seg'[t].window_size <= Max(rx[t].window, 1)]_vars
C17_Witness ==
    \E t \in Tasks :
        /\ pc[t] = "send_batch"
        /\ seg[t].batch_start = 2
        /\ seg[t].window_size = 1
        /\ seg[t].retries_remaining = segmented_request_retries
        /\ Len(sent[t]) = 2

\* C18: when the segment-ack wait of a batch ends with a negative ack or an ack
\* timeout and a retry is left, the engine consumes exactly one retry, halves
\* the window (never below 1) and goes back to sending that same batch from its
\* first segment; and whenever it enters the segment-ack wait, the last frames
\* it has sent are all the segments of the batch, in order.
C18_RetryResendsBatch ==
    /\ [][\A t \in Tasks :
            (/\ NegativeAck(t) \/ AckWaitTimesOut(t)
             /\ seg[t].retries_remaining > 0
             /\ pc'[t] # pc[t])
                => /\ pc'[t] = "send_batch"
                   /\ seg'[t].retries_remaining = seg[t].retries_remaining - 1
                   /\ seg'[t].window_size = Max(seg[t].window_size \div 2, 1)
                   /\ seg'[t].window_size >= 1
                   /\ seg'[t].batch_start = seg[t].batch_start
                   /\ seg'[t].batch_end = seg[t].batch_end
                   /\ seg'[t].next = seg[t].batch_start
                   /\ sent'[t] = sent[t]]_vars
    /\ [][\A t \in Tasks :
            (pc[t] = "send_batch" /\ pc'[t] = "ack_wait")
                => \A k \in seg[t].batch_start..(seg[t].batch_end - 1) :
                      LET f == sent'[t][Len(sent'[t]) - (seg[t].batch_end - 1 - k)]
                      IN /\ f.pdu = "ConfirmedRequest"
                         /\ f.segmented
                         /\ f.invoke_id = id[t]
                         /\ f.sequence_number = k % (U8_MAX + 1)
                         /\ f.start = k * segment_data_len(call[t])]_vars
C18_Witness ==
    \E t \in Tasks :
        /\ pc[t] = "ack_wait"
        /\ seg[t].retries_remaining = segmented_request_retries - 1
        /\ seg[t].window_size = 1
        /\ Len(sent[t]) = 4
        /\ sent[t][3] = sent[t][1]
        /\ sent[t][4] = sent[t][2]

\* C19: when a segment-ack wait ends with a timeout or a negative ack and no
\* retry is left, the exchange returns that error, Timeout or
\* SegmentNegativeAck with the sequence number of the negative ack, and
\* transmits nothing more.
C19_RetriesExhausted ==
    [][\A t \in Tasks :
          (/\ NegativeAck(t) \/ AckWaitTimesOut(t)
           /\ seg[t].retries_remaining = 0
           /\ pc'[t] # pc[t])
              => /\ pc'[t] = "done"
                 /\ sent'[t] = sent[t]
                 /\ result'[t] = IF pc[t] = "ack_wait" THEN Res("Timeout")
                                 ELSE ResNum("SegmentNegativeAck",
                                             rx[t].sequence_number)]_vars
C19_Witness ==
    \E t \in Tasks :
        /\ Returned(t)
        /\ result[t].kind = "Timeout"
        /\ now < response_timeout
        /\ Len(sent[t]) = 2 * (segmented_request_retries + 1)
        /\ call[t].len = 4000

\* C20: every non-segmented confirmed COV or Event notification that
\* recv_cov_notification / recv_event_notification returns to its caller has
\* been answered, before the return, with exactly one Simple-Ack sent to the
\* notification's source address and carrying the notification's invoke-id and
\* the confirmed notification's service choice; nothing else was sent.
C20_ConfirmedNotificationAcked ==
    [][\A t \in Tasks :
          (/\ pc[t] = "n_got"
           /\ rx[t].pdu = "ConfirmedRequest"
           /\ pc'[t] = "done"
           /\ result'[t] = ResNum("Ok", 1))
              => /\ ~rx[t].segmented
                 /\ Len(sent'[t]) = 1
                 /\ sent'[t][1].pdu = "SimpleAck"
                 /\ sent'[t][1].dst = rx[t].src
                 /\ sent'[t][1].invoke_id = rx[t].invoke_id
                 /\ sent'[t][1].service_choice =
                       (IF call[t].kind = "recv_cov"
                        THEN SERVICE_CONFIRMED_COV_NOTIFICATION
                        ELSE SERVICE_CONFIRMED_EVENT_NOTIFICATION)]_vars
C20_Witness ==
    \E t \in Tasks :
        /\ Returned(t)
        /\ call[t].kind = "recv_event"
        /\ result[t] = ResNum("Ok", 1)
        /\ Len(sent[t]) = 1
        /\ sent[t][1].pdu = "SimpleAck"
        /\ sent[t][1].dst = "B"
        /\ sent[t][1].invoke_id = 7
        /\ sent[t][1].service_choice = SERVICE_CONFIRMED_EVENT_NOTIFICATION

\* ---------------------------------------------------------------- claim C21

\* The poll of task t holds a well-formed confirmed notification of the kind it
\* receives, with the segmented flag set.
SegmentedNotification(t) ==
    /\ pc[t] = "n_got"
    /\ rx[t].err = ""
    /\ rx[t].wf = "ok"
    /\ rx[t].pdu = "ConfirmedRequest"
    /\ rx[t].service_choice = ConfirmedService(call[t].kind)
    /\ rx[t].segmented

\* recv_cov_notification / recv_event_notification refuse a segmented confirmed
\* notification of their kind with UnsupportedResponse and send nothing.
C21_PollRefusesSegmented ==
    [][\A t \in Tasks :
          (SegmentedNotification(t) /\ pc'[t] # pc[t])
              => /\ pc'[t] = "done"
                 /\ result'[t] = Res("UnsupportedResponse")
                 /\ sent'[t] = sent[t]]_vars

\* C21: a confirmed COV or Event notification read with the segmented flag set
\* is refused with UnsupportedResponse by the single-poll receive methods,
\* and neither they nor the listener's driver loop deliver it as a notification
\* or send a Simple-Ack for it.
C21_SegmentedRejected ==
    /\ C21_PollRefusesSegmented
    /\ [](listener.segmented => (listener.last = "none" /\ ~listener.acked))

\* ---------------------------------------------------------------- claim C22

\* The collection loop of task t holds a well-formed answer to its request.
DiscoveryAnswer(t) ==
    /\ pc[t] = "d_got"
    /\ rx[t].err = ""
    /\ rx[t].wf = "ok"
    /\ rx[t].pdu = "UnconfirmedRequest"
    /\ rx[t].service_choice = DiscoveryService(call[t].kind)

\* The entries collected for the key of frame r.
EntriesFor(t, r) ==
    {i \in 1..Len(found[t]) :
        IF call[t].kind = "who_is" THEN found[t][i].src = r.src
        ELSE found[t][i].src = r.src /\ Head(found[t][i].payload) = Head(r.payload)}

\* C22: the list who_is collects and returns has at most one entry per source
\* address, the list of who_has at most one per (source address, object-id);
\* an answer whose key has no entry yet is appended as received, an answer
\* whose key has one leaves the list as it is, so the entry is the first such
\* frame received; the list returned is the list collected.
C22_DiscoveryDeduplicated ==
    /\ [](\A t \in Tasks : \A i, j \in 1..Len(found[t]) :
             ~(/\ i # j
               /\ found[t][i].src = found[t][j].src
               /\ (call[t].kind = "who_has"
                      => Head(found[t][i].payload) = Head(found[t][j].payload))))
    /\ [][\A t \in Tasks :
            /\ (DiscoveryAnswer(t) /\ pc'[t] # pc[t])
                  => found'[t] = (IF EntriesFor(t, rx[t]) = {}
                                  THEN Append(found[t], [src |-> rx[t].src,
                                                         payload |-> rx[t].payload])
                                  ELSE found[t])
            /\ (pc[t] \in {"d_wait", "d_got"} /\ ~DiscoveryAnswer(t))
                  => found'[t] = found[t]
            /\ (pc[t] = "d_wait" /\ pc'[t] = "done" /\ result'[t].kind = "Ok")
                  => result'[t].num = Len(found[t])]_vars
\* who_has has returned two entries for source A, for objects "a" and "b", the
\* first with the fields of the first of two differing answers for object "a".
C22_Witness ==
    \E t \in Tasks :
        /\ Returned(t)
        /\ call[t].kind = "who_has"
        /\ result[t] = ResNum("Ok", 2)
        /\ found[t] = <<[src |-> "A", payload |-> <<"a", "b">>],
                        [src |-> "A", payload |-> <<"b">>]>>

\* ---------------------------------------------------------------- claim C23

\* A step in which an administrative command's request is passed to the socket.
CommandSent ==
    /\ Len(wire') = Len(wire) + 1
    /\ wire'[Len(wire')].op \in Commands

\* Requests of commands that wait for a reply are serialised: while one is
\* between its send and its return, no other command's request is sent.
C23_WaitingCommandsSerialized ==
    [][CommandSent
          => \A j \in 1..Len(wire) :
                wire[j].op \in WaitingCommands => wire[j].state # "outstanding"]_vars

\* C23: the request of a later administrative command is not sent until every
\* earlier command (register-foreign-device waiting or fire-and-forget,
\* read/write BDT, read FDT, delete-FDT-entry) has received its reply from the
\* BBMD, has failed or has timed out.
C23_OneCommandOutstanding ==
    [][CommandSent => \A j \in 1..Len(wire) : wire[j].state # "outstanding"]_vars

\* ---------------------------------------------------------------- claim C24

\* The length field and the function of a datagram whose header is complete.
LengthField(d) == d.bytes[3] * 256 + d.bytes[4]
WellFormed(d) ==
    /\ Len(d.bytes) >= 4
    /\ d.bytes[1] = 129
    /\ LengthField(d) >= 4
    /\ LengthField(d) <= Len(d.bytes)
FunctionOf(d) == d.bytes[2]
PayloadOf(d) == SubSeq(d.bytes, 5, LengthField(d))

\* A Result, a BDT ack or an FDT ack from the BBMD.
BbmdReply(d) ==
    /\ d.src = BbmdAddr
    /\ WellFormed(d)
    /\ FunctionOf(d) \in {0, 3, 7}

\* C24: a BVLC Result or BDT/FDT ack frame from the BBMD that is taken from the
\* socket while an administrative command is pending in its reply wait is taken
\* by that command, whatever DataLink::recv calls run on the same transport.
C24_ReplyReachesPendingCommand ==
    [][\A d \in socket :
          (/\ d \notin socket'
           /\ BbmdReply(d)
           /\ \E t \in Tasks : pc[t] = "b_wait")
              => \E t \in Tasks : pc[t] = "b_wait" /\ rx'[t] = d]_vars

\* ---------------------------------------------------------------- claim C25

\* The command of task t returns on the datagram it has taken.
ReturnsOnReply(t) ==
    /\ pc[t] = "b_got"
    /\ pc'[t] = "done"
    /\ call[t].kind \in ResultCommands
ResultCode(d) == d.bytes[5] * 256 + d.bytes[6]
ResultFrame(d) ==
    /\ BbmdReply(d)
    /\ FunctionOf(d) = 0
    /\ LengthField(d) >= 6

\* C25: register-foreign-device, write-BDT and delete-FDT-entry return Ok if and
\* only if they have taken a Result frame of the BBMD that carries code 0, and
\* return BvlcResult(c) on a Result frame that carries a code c other than 0.
C25_ResultCodeDecides ==
    [][\A t \in Tasks :
          /\ ReturnsOnReply(t)
                => /\ (result'[t].kind = "Ok")
                         <=> (ResultFrame(rx[t]) /\ ResultCode(rx[t]) = 0)
                   /\ (ResultFrame(rx[t]) /\ ResultCode(rx[t]) # 0)
                         => result'[t] = ResNum("BvlcResult", ResultCode(rx[t]))
          /\ (/\ pc[t] \in {"b_lock", "b_send", "b_wait"}
              /\ pc'[t] = "done"
              /\ call[t].kind \in ResultCommands)
                => result'[t].kind # "Ok"]_vars
\* A registration has failed with BvlcResult(0x0100) and a table write has
\* succeeded.
C25_Witness ==
    \E t, u \in Tasks :
        /\ Returned(t)
        /\ call[t].kind = "register_foreign_device"
        /\ result[t] = ResNum("BvlcResult", 256)
        /\ \E i \in 1..Len(wire) :
              /\ wire[i].task = u
              /\ wire[i].op = "write_broadcast_distribution_table"
              /\ wire[i].state = "replied"

\* ---------------------------------------------------------------- claim C26

\* DataLink::recv of task t returns on a ForwardedNpdu frame whose payload has
\* at least 6 bytes.
RecvForwarded(t) ==
    /\ pc[t] = "dl_recv"
    /\ pc'[t] = "done"
    /\ WellFormed(rx'[t])
    /\ FunctionOf(rx'[t]) = 4
    /\ Len(PayloadOf(rx'[t])) >= 6
\* The bytes after the origin prefix, and the origin the prefix encodes.
Delivered(d) ==
    [kind |-> "Ok", payload |-> SubSeq(PayloadOf(d), 7, Len(PayloadOf(d))),
     num |-> 0, dl |-> "",
     src |-> [ip |-> SubSeq(PayloadOf(d), 1, 4),
              port |-> PayloadOf(d)[5] * 256 + PayloadOf(d)[6]]]

\* C26 as stated: for every received ForwardedNpdu frame whose payload has at
\* least 6 bytes, recv delivers the bytes after the 6-byte origin prefix, with
\* the origin address of the prefix as source.
C26_ForwardedDelivered ==
    [][\A t \in Tasks : RecvForwarded(t) => result'[t] = Delivered(rx'[t])]_vars

\* C26: for every received ForwardedNpdu frame whose payload has at least 6
\* bytes, recv delivers the bytes after the 6-byte origin prefix, with the
\* origin address of the prefix as source and not the relaying sender, when
\* those bytes fit the caller's buffer, and returns FrameTooLarge when they do
\* not.
C26_ForwardedDeliveredIfFits ==
    [][\A t \in Tasks :
          RecvForwarded(t)
              => result'[t] = (IF Len(PayloadOf(rx'[t])) - 6 <= call[t].len
                               THEN Delivered(rx'[t])
                               ELSE Res("FrameTooLarge"))]_vars
\* recv has returned one byte with the origin 10.0.0.9:47809 as its source.
C26_Witness ==
    \E t \in Tasks :
        /\ Returned(t)
        /\ call[t].kind = "dl_recv"
        /\ rx[t].src = BbmdAddr
        /\ result[t].kind = "Ok"
        /\ result[t].payload = <<7>>
        /\ result[t].src = [ip |-> <<10, 0, 0, 9>>, port |-> 47809]

\* ---------------------------------------------------------------- claim C27

\* C27: every frame the transport has passed to the socket, by DataLink::send
\* or by an administrative command, has a length field equal to 4 plus the
\* length of the payload the call was given and is exactly that many bytes
\* long; and recv rejects a datagram whose length field is below 4.
C27_FrameLength ==
    /\ [](\A i \in 1..Len(wire) :
             /\ LengthField(wire[i]) = 4 + wire[i].payload_len
             /\ Len(wire[i].bytes) = 4 + wire[i].payload_len)
    /\ [][\A t \in Tasks :
            (/\ pc[t] = "dl_recv"
             /\ pc'[t] = "done"
             /\ Len(rx'[t].bytes) >= 4
             /\ LengthField(rx'[t]) < 4)
                => result'[t] = Res("InvalidFrame")]_vars
\* A broadcast of 1600 bytes has been sent to the BBMD, and then a registration
\* of 6 bytes.
C27_Witness ==
    \E i, j \in 1..Len(wire) :
        /\ i < j
        /\ wire[i].op = "dl_send"
        /\ wire[i].dst = BbmdAddr
        /\ Len(wire[i].bytes) = 1600
        /\ wire[j].op = "register_foreign_device"
        /\ wire[j].bytes = <<129, 5, 0, 6, 0, 60>>

\* C28: for every u32 and every i32 value, decoding the bytes the
\* variable-length encoder wrote, with the length it reported, succeeds and
\* yields the value again.
Primitive == codec.kind \in {"unsigned", "signed"}
C28_PrimitiveRoundTrip ==
    codec.state = "decoded" /\ Primitive
        => codec.err = "" /\ codec.decoded = codec.value
\* -129 went out as the two bytes ff 7f and came back.
C28_Witness ==
    /\ codec.state = "decoded" /\ codec.kind = "signed"
    /\ codec.value = -129 /\ codec.len = 2 /\ codec.w.buf = <<255, 127>>
    /\ codec.decoded = -129

\* C29 as stated: for every APDU header value of a type that has an encoder,
\* whatever its fields hold, decoding its encoding yields an equal header.
HeaderDecoded == codec.state = "decoded" /\ codec.kind \in HeaderKinds
C29_HeaderRoundTrip ==
    HeaderDecoded => codec.err = "" /\ codec.decoded = codec.value
\* A header the wire format can carry: the segmentation fields are present
\* exactly when the header is segmented, and a Confirmed-Request's
\* max_segments and max_apdu fit their four bits.
OnWire(kind, h) ==
    /\ kind \in {"ConfirmedRequestHeader", "ComplexAckHeader"}
          => /\ (h.sequence_number # None) <=> h.segmented
             /\ (h.proposed_window_size # None) <=> h.segmented
    /\ kind = "ConfirmedRequestHeader"
          => h.max_segments <= 15 /\ h.max_apdu <= 15
\* C29 (amended): decoding the encoding of a header yields an equal header
\* when the header is one the wire format can carry.
C29_OnWireHeaderRoundTrip ==
    HeaderDecoded /\ OnWire(codec.kind, codec.value)
        => codec.err = "" /\ codec.decoded = codec.value
\* A segmented Confirmed-Request with every flag set, in six bytes, came back.
C29_Witness ==
    /\ HeaderDecoded /\ codec.kind = "ConfirmedRequestHeader"
    /\ codec.value.segmented /\ codec.value.more_follows
    /\ codec.value.segmented_response_accepted
    /\ codec.value.max_segments = 7 /\ codec.value.max_apdu = 5
    /\ codec.value.sequence_number = Some(3)
    /\ codec.value.proposed_window_size = Some(4)
    /\ codec.w.buf = <<14, 117, 255, 3, 4, 12>>
    /\ codec.decoded = codec.value

\* C30: the permits issued for an address and not yet dropped never exceed
\* the address's configured max_concurrent: its override if one is set,
\* otherwise the default.
RECURSIVE HeldFor(_, _)
HeldFor(a, s) ==
    IF s = 0 THEN 0
    ELSE HeldFor(a, s - 1) + (IF arcs[s].address = a THEN arcs[s].held ELSE 0)
InAcquire(a) ==
    {t \in Tasks : pc[t] \in {"th_interval", "th_sleep"} /\ call[t].address = a}
Outstanding(a) == HeldFor(a, Len(arcs)) + Cardinality(InAcquire(a))
ConfiguredMax(a) ==
    IF throttle.overrides[a] # None THEN throttle.overrides[a][1].max_concurrent
    ELSE throttle.default_max_concurrent
C30_PermitsWithinLimit ==
    \A a \in Addrs : ConfiguredMax(a) >= 1 /\ Outstanding(a) <= ConfiguredMax(a)
\* What does hold: no semaphore has more permits out than it was made with,
\* so an address whose semaphore was never replaced stays within its limit.
C30_WithinLimitUntilReplaced ==
    \A a \in Addrs :
        Cardinality({s \in 1..Len(arcs) : arcs[s].address = a}) <= 1
            => Outstanding(a) <= ConfiguredMax(a)

\* The step in which send_confirmed_request builds its first batch.
FirstBatchBuilt(t) == pc[t] = "send" /\ pc'[t] = "send_batch"
\* The window starts at the configured value.
WindowStartsConfigured ==
    [][\A t \in Tasks :
          FirstBatchBuilt(t)
              => /\ seg'[t].window_size = Max(segmented_request_window_size, 1)
                 /\ seg'[t].peer_window_ceiling = Max(segmented_request_window_size, 1)]_vars
\* C31 as stated: the window size starts at the configured value, and after
\* each positive segment-ack the peer ceiling is the minimum of the configured
\* ceiling and the window that ack, the most recent one, announces.
C31_CeilingFollowsLastAck ==
    /\ WindowStartsConfigured
    /\ [][\A t \in Tasks :
            (PositiveAck(t) /\ pc'[t] # pc[t])
                => seg'[t].peer_window_ceiling =
                      Min(Max(segmented_request_window_size, 1), Max(rx[t].window, 1))]_vars
\* C31 (amended): the window size starts at the configured value, and after
\* each positive segment-ack the peer ceiling is the minimum of its previous
\* value and the window the ack announces (0 counting as 1), so that it is the
\* smallest window any ack of the transmission has announced and never rises;
\* the window then grows by one up to the configured ceiling and that ceiling.
C31_CeilingIsSmallestAnnounced ==
    /\ WindowStartsConfigured
    /\ [][\A t \in Tasks :
            (PositiveAck(t) /\ pc'[t] # pc[t])
                => /\ seg'[t].peer_window_ceiling =
                         Min(seg[t].peer_window_ceiling, Max(rx[t].window, 1))
                   /\ seg'[t].peer_window_ceiling <= seg[t].peer_window_ceiling
                   /\ seg'[t].window_size =
                         Max(Min(Min(seg[t].window_size + 1,
                                     Max(segmented_request_window_size, 1)),
                                 seg'[t].peer_window_ceiling), 1)]_vars
\* An earlier ack has lowered the ceiling to 1 and the ack of the next batch,
\* announcing 3, is in hand.
C31_Witness ==
    \E t \in Tasks :
        /\ PositiveAck(t)
        /\ seg[t].batch_start = 2
        /\ seg[t].peer_window_ceiling = 1
        /\ rx[t].window = 3
        /\ sent[t][1].window = segmented_request_window_size

\* A positive segment-ack of this exchange, sent by the server, that names a
\* sequence number other than the batch's last, is in hand.
OtherSequenceAck(t) ==
    /\ PeerSegmentAck(t)
    /\ ~rx[t].negative_ack
    /\ rx[t].sequence_number # (seg[t].batch_end - 1) % (U8_MAX + 1)
\* The transmission moves on to the next batch.
BatchAdvances(t) ==
    /\ pc[t] \in SegmentPcs
    /\ pc'[t] = "send_batch"
    /\ seg'[t].batch_start # seg[t].batch_start
\* C32: the segment-ack wait is entered only after a non-final batch, with all
\* the batch's frames sent, in order, since the batch was last started; the
\* transmission advances to the next batch only on a positive segment-ack from
\* the target with sent-by-server set, the request's invoke-id and the batch's
\* last sequence number; a positive ack naming another sequence number changes
\* nothing and the wait goes on; and the last frame of the final batch leads
\* to the response wait, never to a segment-ack wait.
C32_BatchThenOneAck ==
    /\ [][\A t \in Tasks :
            (pc[t] = "send_batch" /\ pc'[t] = "ack_wait")
                => /\ seg[t].batch_end < seg[t].segment_count
                   /\ Len(sent'[t]) >= seg[t].batch_end - seg[t].batch_start
                   /\ \A k \in seg[t].batch_start..(seg[t].batch_end - 1) :
                         LET f == sent'[t][Len(sent'[t]) - (seg[t].batch_end - 1 - k)]
                         IN /\ f.segmented
                            /\ f.invoke_id = id[t]
                            /\ f.sequence_number = k % (U8_MAX + 1)]_vars
    /\ [][\A t \in Tasks :
            BatchAdvances(t)
                => /\ PositiveAck(t)
                   /\ seg'[t].batch_start = seg[t].batch_end
                   /\ sent'[t] = sent[t]]_vars
    /\ [][\A t \in Tasks :
            (OtherSequenceAck(t) /\ pc'[t] # pc[t])
                => /\ pc'[t] = "ack_wait"
                   /\ seg'[t] = seg[t]
                   /\ sent'[t] = sent[t]
                   /\ result'[t] = result[t]]_vars
    /\ [][\A t \in Tasks :
            (/\ pc[t] = "send_batch"
             /\ seg[t].batch_end = seg[t].segment_count
             /\ pc'[t] # pc[t])
                => pc'[t] \in {"resp_wait", "done"}]_vars
\* Both frames of the first batch of a three-segment request are out and a
\* positive ack naming sequence 0, not 1, is in hand.
C32_Witness ==
    \E t \in Tasks :
        /\ OtherSequenceAck(t)
        /\ rx[t].sequence_number = 0
        /\ seg[t].batch_start = 0 /\ seg[t].batch_end = 2
        /\ seg[t].segment_count = 3
        /\ Len(sent[t]) = 2
        /\ sent[t][1].sequence_number = 0 /\ sent[t][2].sequence_number = 1

\* The ack's read result is a context-5 block with the error-class in context
\* 0 and the error-code in context 1.
RECURSIVE Contains(_, _)
Contains(bytes, block) ==
    /\ Len(bytes) >= Len(block)
    /\ \/ SubSeq(bytes, 1, Len(block)) = block
       \/ Contains(Tail(bytes), block)
HasAccessError(payload) ==
    /\ payload[1] = 12
    /\ \E b \in ContextErrorBlocks : Contains(payload, <<78>> \o b)
RpmReturned == codec.state = "decoded" /\ codec.kind = "rpm"
\* C33: when the Read-Property-Multiple ack contains a context-5
\* property-access-error block, read_property_multiple fails with
\* RemoteServiceError and not with a codec error.
C33_AccessErrorIsRemoteServiceError ==
    RpmReturned /\ HasAccessError(codec.value)
        => codec.decoded.kind = "RemoteServiceError"
\* What the call does return for such an ack: a codec error, Unsupported when
\* error-class and error-code have no value octets and InvalidTag when they do.
C33_AccessErrorIsCodecError ==
    RpmReturned /\ HasAccessError(codec.value)
        => /\ codec.decoded.kind = "Decode"
           /\ codec.decoded.err =
                 IF Contains(codec.value, <<94, 8, 24, 95>>) THEN "Unsupported"
                 ELSE "InvalidTag"
\* Every ack of the model is within the part of the value decoder modelled.
RpmModelled == RpmReturned => codec.decoded.err # "NotModelled"

\* C34: DataLink::send fails with FrameTooLarge exactly when 4 + payload
\* length exceeds the 65535 a 16-bit length field holds, and accepts every
\* shorter payload.
FrameTooLargeReturned(t) ==
    pc'[t] = "done" /\ result'[t] = Res("FrameTooLarge")
C34_SendBoundedByLengthField ==
    [][\A t \in Tasks :
          pc[t] = "dl_send" /\ pc'[t] # pc[t]
              => (FrameTooLargeReturned(t) <=> 4 + call[t].len > 65535)]_vars
\* C34, as the code has it: DataLink::send builds its frame in a buffer of
\* 1600 bytes and fails with FrameTooLarge, sending nothing, exactly when
\* 4 + payload length exceeds 1600; only the administrative commands to the
\* BBMD are bounded by the 65535 of the length field.
C34_SendBoundedByFrameBuffer ==
    /\ [][\A t \in Tasks :
            pc[t] = "dl_send" /\ pc'[t] # pc[t]
                => /\ FrameTooLargeReturned(t) <=> 4 + call[t].len > 1600
                   /\ FrameTooLargeReturned(t) => wire' = wire]_vars
    /\ [][\A t \in Tasks :
            pc[t] = "b_send" /\ pc'[t] # pc[t]
                => /\ FrameTooLargeReturned(t)
                         <=> 4 + Len(CommandPayload(call[t])) > 65535
                   /\ FrameTooLargeReturned(t) => wire' = wire]_vars
\* A payload of 1596 bytes has been sent in a frame of 1600, and the send of a
\* payload of 1597 bytes has returned FrameTooLarge.
C34_Witness ==
    /\ \E i \in 1..Len(wire) :
          wire[i].op = "dl_send" /\ wire[i].payload_len = 1596
                                /\ Len(wire[i].bytes) = 1600
    /\ pc[MainTask] = "done"
    /\ call[MainTask].kind = "dl_send"
    /\ call[MainTask].len = 1597
    /\ result[MainTask] = Res("FrameTooLarge")

\* C35: the invoke-id counter lock is held only between its acquisition and
\* the store that ends next_invoke_id, a stretch without a suspension: no task
\* holds it while it waits for the request I/O lock, a send, a receive or a
\* timer; its holder can always take its next step, and a task that asks for
\* a free counter lock gets it whatever exchange is in progress.
InsideNextInvokeId(t) == pc[t] \in {"id_take", "id_store"}
C35_CounterLockNeverHeldAcrossSuspension ==
    /\ \A t \in Tasks : invoke_lock = t => InsideNextInvokeId(t)
    /\ \A t \in Tasks : invoke_lock = t => ENABLED (IdTake(t) \/ IdStore(t))
    /\ \A t \in Tasks :
          pc[t] = "id_lock" /\ invoke_lock = NoTask => ENABLED IdLock(t)
\* While the first caller waits for its response under the request I/O lock,
\* the second is inside next_invoke_id holding the counter lock, having been
\* issued the id after the first caller's.
C35_Witness ==
    /\ request_io_lock = "t1"
    /\ pc["t1"] = "resp_wait"
    /\ invoke_lock = "t2"
    /\ pc["t2"] = "id_store"
    /\ id["t2"] = Bump(id["t1"])

\* C36: a reply the peer sent to an earlier exchange of the client is never
\* accepted as the result of a later exchange, however many exchanges lie
\* between them and also after the invoke-id counter has wrapped.
Accepts(t) ==
    pc[t] = "resp_got" /\ pc'[t] = "done" /\ result'[t].kind = "Ok"
OwnReply(t) == ReplyTo(call[t].address, allocCount, call[t].service_choice)
C36_StaleReplyNeverAccepted ==
    [][\A t \in Tasks :
          Accepts(t) => rx[t] = OwnReply(t) /\ result'[t].payload = ReplyData(allocCount)]_vars
\* C36, as the code has it: an exchange takes a reply from its target by
\* invoke-id and service alone. A reply to an earlier exchange is ignored as
\* long as fewer than 255 allocations lie between the two, and is accepted,
\* with the earlier exchange's data, once the counter has wrapped to the same
\* invoke-id.
SameInvokeId(k, n) == (n - k) % 255 = 0
C36_StaleReplyAcceptedOnlyAfterWrap ==
    /\ [](\A t \in Tasks :
            pc[t] \in {"send", "resp_wait", "resp_got"}
                => id[t] = IdOfExchange(allocCount))
    /\ [][\A t \in Tasks : \A k \in 1..allocCount :
            (/\ pc[t] = "resp_got"
             /\ pc'[t] # pc[t]
             /\ rx[t] = ReplyTo(call[t].address, k, call[t].service_choice))
                => IF SameInvokeId(k, allocCount)
                   THEN Accepts(t) /\ result'[t].payload = ReplyData(k)
                   ELSE pc'[t] = "resp_wait" /\ result'[t] = result[t]]_vars
\* The 256th exchange, whose invoke-id is 1 again, has returned the data of
\* the reply to the first exchange.
C36_Witness ==
    /\ allocCount = 256
    /\ pc[MainTask] = "done"
    /\ id[MainTask] = 1
    /\ result[MainTask] = ResOk(ReplyData(1))
    /\ ReplyData(1) # ReplyData(256)
    /\ Len(accepted[MainTask]) = 1
    /\ now >= response_timeout

\* C37: within one segmented confirmed request the batch retransmissions,
\* added up over all its batches, never exceed the configured
\* segmented-request retries.
IsSegment(f) == f.pdu = "ConfirmedRequest" /\ f.segmented
\* A batch is sent again where the sequence numbers of the frames sent do not
\* go up.
BatchRetransmissions(t) ==
    Cardinality({i \in 2..Len(sent[t]) :
                    /\ IsSegment(sent[t][i]) /\ IsSegment(sent[t][i - 1])
                    /\ sent[t][i].sequence_number <= sent[t][i - 1].sequence_number})
Transmissions(t, s) ==
    Cardinality({i \in 1..Len(sent[t]) :
                    IsSegment(sent[t][i]) /\ sent[t][i].sequence_number = s})
\* How often the batch in hand has been sent again, or is about to be.
RetriesUsed(t) ==
    IF pc[t] = "send_batch" /\ seg[t].next = seg[t].batch_start
    THEN Transmissions(t, seg[t].batch_start)
    ELSE Transmissions(t, seg[t].batch_start) - 1
C37_TotalRetransmissionsWithinRetries ==
    \A t \in Tasks : BatchRetransmissions(t) <= segmented_request_retries
\* C37, as the code has it: the retries are counted anew for every batch.
\* Each batch, and so each segment, is retransmitted at most the configured
\* number of times, the final batch never, and a request of n segments is
\* retransmitted at most retries * (n - 1) times in all.
C37_RetransmissionsWithinRetriesPerBatch ==
    \A t \in Tasks :
        /\ \A s \in 0..U8_MAX : Transmissions(t, s) <= 1 + segmented_request_retries
        /\ pc[t] \in {"send_batch", "ack_wait", "ack_got"}
              => /\ seg[t].retries_remaining
                       = segmented_request_retries - RetriesUsed(t)
                 /\ BatchRetransmissions(t)
                       <= segmented_request_retries * (seg[t].segment_count - 1)
                 /\ Transmissions(t, seg[t].segment_count - 1) <= 1
\* A request of five segments has been acknowledged after its first batch was
\* sent three times and its second batch three times: four retransmissions
\* with two retries configured.
C37_Witness ==
    /\ pc[MainTask] = "done"
    /\ result[MainTask].kind = "Ok"
    /\ segmented_request_retries = 2
    /\ BatchRetransmissions(MainTask) = 4
    /\ Transmissions(MainTask, 0) = 3
    /\ Transmissions(MainTask, 2) = 3
    /\ Transmissions(MainTask, 4) = 1

\* C38: an administrative command's outcome is determined by the BBMD's reply
\* to that very command: a command that returns on a frame of the BBMD does so
\* only after the BBMD has answered the request this command sent, never on
\* the reply to an earlier command.
ReturnsOnBbmdFrame(t) ==
    /\ pc[t] = "b_got"
    /\ pc'[t] = "done"
    /\ BbmdReply(rx[t])
C38_ReplyIsToThatCommand ==
    [][\A t \in Tasks :
          ReturnsOnBbmdFrame(t) => wire[CmdIndex(t)].answered]_vars
\* What the code does ensure: a command returns on a frame of the BBMD only
\* when the BBMD has answered some command sent before.
C38_ReplyIsToSomeCommand ==
    [][\A t \in Tasks :
          ReturnsOnBbmdFrame(t)
              => \E i \in 1..CmdIndex(t) : wire[i].answered]_vars

\* C39: while an administrative command waits for its reply, a frame that
\* carries an NPDU (Original-Unicast, Original-Broadcast, Distribute-Broadcast
\* or Forwarded-NPDU, from the BBMD or from another peer) is not consumed by
\* the command: it leaves the socket only into a DataLink::recv.
NpduCarrier(d) ==
    /\ WellFormed(d)
    /\ FunctionOf(d) \in {OriginalUnicastNpdu, OriginalBroadcastNpdu,
                          DistributeBroadcastToNetwork, ForwardedNpdu}
C39_DataFramesLeftForRecv ==
    [][\A d \in socket :
          d \notin socket' /\ NpduCarrier(d)
              => \E t \in Tasks :
                    pc[t] = "dl_recv" /\ pc'[t] = "done" /\ rx'[t] = d]_vars
\* What the code does with such a frame in a command's reply wait: the command
\* takes it from the socket, drops it and waits on.
C39_DataFrameDroppedByCommand ==
    [][\A t \in Tasks :
          pc[t] = "b_got" /\ pc'[t] # pc[t] /\ NpduCarrier(rx[t])
              => /\ pc'[t] = "b_wait"
                 /\ rx'[t] = NoRx
                 /\ socket' = socket
                 /\ result' = result]_vars

\* C40: every non-segmented confirmed COV or Event notification the client
\* reads from its data link is eventually answered with a Simple-Ack that
\* carries its invoke-id, whichever receive loop has read it.
GotStates == {"resp_got", "ack_got", "reasm_got", "n_got", "d_got"}
Read(f) == \E t \in Tasks : pc[t] \in GotStates /\ rx[t] = f
Answered(f) ==
    \E t \in Tasks : \E i \in 1..Len(sent[t]) :
        sent[t][i] = SimpleAckFrame(f.src, f.invoke_id, f.service_choice)
C40_ConfirmedNotificationAnswered ==
    \A f \in NotificationFrames : [](Read(f) => <>Answered(f))
\* What the code does: recv_cov_notification answers a COV notification and
\* recv_event_notification an Event notification, unless the send fails; every
\* other loop, and each of the two for the other's service, drops the frame it
\* has read and sends nothing.
OwnReceiver(t) ==
    /\ pc[t] = "n_got"
    /\ rx[t].service_choice = ConfirmedService(call[t].kind)
C40_AnsweredByItsOwnReceiverOnly ==
    [][\A t \in Tasks :
          pc[t] \in GotStates /\ pc'[t] # pc[t] /\ rx[t] \in NotificationFrames
              => IF OwnReceiver(t)
                 THEN \/ sent'[t] = Append(sent[t],
                                           SimpleAckFrame(rx[t].src, rx[t].invoke_id,
                                                          rx[t].service_choice))
                      \/ result'[t].kind = "DataLink" /\ sent'[t] = sent[t]
                 ELSE /\ sent'[t] = sent[t]
                      /\ pc'[t] \in TimedWaits
                      /\ rx'[t] = NoRx]_vars
====
